---- MODULE Spec2Model ----
(***************************************************************************)
(* Internet audio streaming of the viewer (llstreamingaudio_fmodstudio.cpp) *)
(* as a state machine: the stream controller LLStreamingAudio_FMODSTUDIO,   *)
(* the stream handle LLAudioStreamManagerFMODSTUDIO, the waveform ring      *)
(* buffer fed by waveDataCallback, and the tag decoding done in update().   *)
(***************************************************************************)
EXTENDS Integers, Naturals, Sequences, FiniteSets, TLC

VARIABLES
    mCurrentInternetStreamp,      \* the current handle, or NullStream
    mFMODInternetStreamChannelp,  \* the controller's channel reference, 0 = NULL
    mGain,                        \* linear gain, in tenths
    mMetaData,                    \* [null, map]: LLSD* and the map it points to
    mDeadStreams,                 \* std::list of handles waiting for their close
    mURL,                         \* remembered URL
    mPendingURL,                  \* deferred URL
    mStreamDSP,                   \* TRUE iff createDSP gave a DSP (pointer non-NULL)
    dspActive,                    \* engine side: the DSP's active flag
    chPaused,                     \* engine side: paused flag of the stream's channel
    gWaveDataBuffer,              \* ring buffer, index 0..WAVE_BUFFER_SIZE-1
    gWaveDataBufferSize,          \* fill count
    gWaveBufferMinSize,           \* watermark
    nextId,                       \* identity the next allocated handle gets
    crashed,                      \* the process died: a NULL dereference, an assertion, LL_ERRS
    hist,                         \* what the last operation did (observation only)
    gWaveDataMutex,               \* owner of the wave-data mutex: "none", "tick", "mixer"
    dspLock,                      \* owner of the engine's DSP lock (System::lockDSP)
    tick,                         \* where the tick thread is inside getWaveData() or stop()
    mixer,                        \* where the mixer thread is inside waveDataCallback
    produced,                     \* samples delivered to the callback, oldest first (observation)
    written                       \* samples stored in the ring buffer, oldest first (observation)

vars == <<mCurrentInternetStreamp, mFMODInternetStreamChannelp, mGain, mMetaData,
          mDeadStreams, mURL, mPendingURL, mStreamDSP, dspActive, chPaused,
          gWaveDataBuffer, gWaveDataBufferSize, gWaveBufferMinSize, nextId,
          crashed, hist, gWaveDataMutex, dspLock, tick, mixer, produced, written>>

\* the locks, the two threads' positions and the record of the samples
threadVars == <<gWaveDataMutex, dspLock, tick, mixer, produced, written>>

---------------------------------------------------------------------------
(* Bounds of the model and constants of the program.                       *)

\* capacity of the ring buffer (1024 in the program), scaled down
WAVE_BUFFER_SIZE == 4
\* longest block of frames one callback delivers
MaxBlock == 2
\* number of distinct handle identities the allocator hands out in turn
MaxHandles == 3
\* engine calls one handle makes in the runs that exercise a handle on its own
MaxCalls == 3
\* code units of a text handed to the UTF-16 decoder
MaxUnits == 2
\* progress > 80 ends a starvation pause
RESUME_PERCENT == 80
\* mGain(1.0f), in tenths
GAIN_ONE == 10
\* the drain attempts of the destructor
DRAIN_ATTEMPTS == 100

URLs == {"a", "b"}
OpenStates == {"CONNECTING", "BUFFERING", "READY", "ERROR"}
Progress == {0, RESUME_PERCENT, RESUME_PERCENT + 1}

NullStream ==
    [id |-> 0, url |-> "", stream |-> FALSE, chan |-> 0, mReady |-> FALSE, state |-> "NONE"]

NullMeta == [null |-> TRUE, map |-> {}]
NewLLSD == [null |-> FALSE, map |-> {}]

llclamp(v, lo, hi) == IF v < lo THEN lo ELSE IF v > hi THEN hi ELSE v

---------------------------------------------------------------------------
(* The stream handle, LLAudioStreamManagerFMODSTUDIO.  A handle is a record:*)
(* id (its identity), url, stream (mInternetStream non-NULL), chan          *)
(* (mStreamChannel, 0 = NULL), mReady, and state, the open state the        *)
(* backend holds for the underlying sound.                                  *)

\* the constructor; createOk is the result of System::createStream
LLAudioStreamManagerFMODSTUDIO(id, url, createOk) ==
    IF createOk
    THEN [id |-> id, url |-> url, stream |-> TRUE, chan |-> 0, mReady |-> TRUE,
          state |-> "CONNECTING"]
    ELSE [id |-> id, url |-> url, stream |-> FALSE, chan |-> 0, mReady |-> FALSE,
          state |-> "NONE"]

\* getOpenState: reads the state through mInternetStream with no NULL check.
\* On a handle without a stream the read is a NULL dereference: the result is
\* "CRASH" or any value at all left in the uninitialized local.
getOpenState(h) ==
    IF h.stream THEN {h.state} ELSE OpenStates \cup {"CRASH"}

\* asks the engine to play again although a channel is cached
startStream_PlayAgain(h, playOk) ==
    IF ~h.stream \/ h.state # "READY"
    THEN [chan |-> 0, h |-> h, played |-> FALSE]
    ELSE LET c == IF playOk THEN h.id ELSE 0
         IN  [chan |-> c, h |-> [h EXCEPT !.chan = c], played |-> TRUE]

\* startStream; playOk is whether System::playSound produced a channel.
\* Returns the channel, the handle afterwards and whether playSound was called.
startStream(h, playOk) ==
    IF ~h.stream \/ h.state # "READY"
    THEN [chan |-> 0, h |-> h, played |-> FALSE]
    ELSE IF h.chan # 0
    THEN [chan |-> h.chan, h |-> h, played |-> FALSE]
    ELSE LET c == IF playOk THEN h.id ELSE 0
         IN  [chan |-> c, h |-> [h EXCEPT !.chan = c], played |-> TRUE]

\* keeps the stream and the channel after a release that succeeded
stopStream_KeepStream(h, relOk) ==
    IF h.stream
    THEN LET close == h.state # "CONNECTING"
         IN  IF close /\ relOk
             THEN [ok |-> TRUE, h |-> h, released |-> TRUE]
             ELSE [ok |-> FALSE, h |-> h, released |-> close]
    ELSE [ok |-> TRUE, h |-> h, released |-> FALSE]

\* stopStream; relOk is the result of Sound::release, when it is called.
\* Returns the result, the handle afterwards and whether release was called.
stopStream(h, relOk) ==
    IF h.stream
    THEN LET close == h.state # "CONNECTING"
         IN  IF close /\ relOk
             THEN [ok |-> TRUE, h |-> [h EXCEPT !.chan = 0, !.stream = FALSE],
                   released |-> TRUE]
             ELSE [ok |-> FALSE, h |-> h, released |-> close]
    ELSE [ok |-> TRUE, h |-> h, released |-> FALSE]

---------------------------------------------------------------------------
(* Text of tag payloads.  Payloads are sequences of bytes 0..255; decoded   *)
(* text is a sequence of UTF-8 bytes.                                       *)

\* the value of a byte read through a plain char (sign-extended where char is signed)
CharValue(b, signedChar) == IF signedChar /\ b > 127 THEN b - 256 ELSE b

\* UTF-8 bytes of one code point below 0x10000
Utf8Bytes(cp) ==
    IF cp < 128 THEN <<cp>>
    ELSE IF cp < 2048 THEN <<192 + (cp \div 64), 128 + (cp % 64)>>
    ELSE <<224 + (cp \div 4096), 128 + ((cp \div 64) % 64), 128 + (cp % 64)>>

RECURSIVE Utf8OfAll(_)
Utf8OfAll(cps) ==
    IF cps = <<>> THEN <<>> ELSE Utf8Bytes(Head(cps)) \o Utf8OfAll(Tail(cps))

\* utf16str_to_utf8str of llstring: 16-bit units to UTF-8 (units outside the
\* surrogate range; the tags of this model carry no surrogates)
utf16str_to_utf8str(units) == Utf8OfAll(units)

\* rawstr_to_utf8 of llstring: every byte is one character of the legacy table
rawstr_to_utf8(bytes) == Utf8OfAll(bytes)

\* utf16input_to_utf8(input, len, type) on a little-endian host
utf16input_to_utf8(input, type, signedChar) ==
    LET C(b) == CharValue(b, signedChar)
        bom == /\ type = "UTF16"
               /\ Len(input) > 2
               /\ \/ C(input[1]) = 254 /\ C(input[2]) = 255
                  \/ C(input[1]) = 255 /\ C(input[2]) = 254
        inp == IF bom THEN SubSeq(input, 3, Len(input)) ELSE input
        len == Len(inp)
        \* after input += 2 the test input[0] == 0xFE reads the byte behind the marker
        ty == IF type = "UTF16"
              THEN IF bom THEN (IF C(inp[1]) = 254 THEN "UTF16BE" ELSE "UTF16LE")
                   ELSE "UTF16BE"
              ELSE type
        whole == [k \in 1..(len \div 2) |-> inp[2 * k - 1] + 256 * inp[2 * k]]
        out_16 == IF len % 2 = 1
                  THEN Append(whole, (C(inp[len]) * 256) % 65536)
                  ELSE whole
        swapped == [k \in 1..Len(out_16) |->
                      ((out_16[k] % 256) * 256) + (out_16[k] \div 256)]
    IN  utf16str_to_utf8str(IF ty = "UTF16BE" THEN swapped ELSE out_16)

\* if (out.length() && out.back() == 0) out.pop_back()
StripNul(out) ==
    IF Len(out) > 0 /\ out[Len(out)] = 0 THEN SubSeq(out, 1, Len(out) - 1) ELSE out

\* LLStringUtil::toUpper on the tag names of this model
toUpper(name) ==
    CASE name = "tit2" -> "TIT2"
      [] name = "tpe1" -> "TPE1"
      [] name = "Title" -> "TITLE"
      [] name = "title" -> "TITLE"
      [] name = "Artist" -> "ARTIST"
      [] name = "WM/AlbumArtist" -> "WM/ALBUMARTIST"
      [] name = "wm/albumartist" -> "WM/ALBUMARTIST"
      [] name = "Sample Rate Change" -> "SAMPLE RATE CHANGE"
      [] name = "Genre" -> "GENRE"
      [] OTHER -> name

\* LLStringUtil::compareInsensitive(a, b) == 0
equalInsensitive(a, b) == toUpper(a) = toUpper(b)

\* the tag translate table of update()
TagName(tag) ==
    CASE tag.type = "ID3V2" ->
           IF equalInsensitive(tag.name, "TIT2") THEN "TITLE"
           ELSE IF tag.name = "TPE1" THEN "ARTIST" ELSE tag.name
      [] tag.type = "ASF" ->
           IF equalInsensitive(tag.name, "Title") THEN "TITLE"
           ELSE IF equalInsensitive(tag.name, "WM/AlbumArtist") THEN "ARTIST"
           ELSE tag.name
      [] OTHER ->
           IF equalInsensitive(tag.name, "TITLE") \/ equalInsensitive(tag.name, "ARTIST")
           THEN toUpper(tag.name) ELSE tag.name

\* the switch on tag.datatype: the value stored under the name, or none
TagValue(tag, signedChar) ==
    CASE tag.datatype = "INT" -> <<[t |-> "Integer", v |-> tag.data]>>
      [] tag.datatype = "FLOAT" -> <<[t |-> "Real", v |-> tag.data]>>
      [] tag.datatype = "STRING" ->
           <<[t |-> "String", v |-> StripNul(rawstr_to_utf8(tag.data))]>>
      [] tag.datatype = "STRING_UTF8" ->
           LET C(b) == CharValue(b, signedChar)
               offs == IF /\ Len(tag.data) > 3
                          /\ C(tag.data[1]) = 239
                          /\ C(tag.data[2]) = 187
                          /\ C(tag.data[3]) = 191
                       THEN 3 ELSE 0
           IN  <<[t |-> "String",
                  v |-> StripNul(SubSeq(tag.data, offs + 1, Len(tag.data)))]>>
      [] tag.datatype = "STRING_UTF16" ->
           <<[t |-> "String",
              v |-> StripNul(utf16input_to_utf8(tag.data, "UTF16", signedChar))]>>
      [] tag.datatype = "STRING_UTF16BE" ->
           <<[t |-> "String",
              v |-> StripNul(utf16input_to_utf8(tag.data, "UTF16BE", signedChar))]>>
      [] OTHER -> <<>>

\* (*mMetaData)[name] = value
MapPut(map, name, value) ==
    {p \in map : p[1] # name} \cup {<<name, value>>}

\* one engine call, as the last operation's log keeps it
Call(f, a, by) == [f |-> f, a |-> a, by |-> by]

\* the loop over the tags of update(): the rebuilt map and the setFrequency
\* calls made on the way
RECURSIVE ReadTags(_, _, _, _)
ReadTags(tags, map, calls, signedChar) ==
    IF tags = <<>> THEN [map |-> map, calls |-> calls]
    ELSE LET tag == Head(tags)
             rest == Tail(tags)
         IN  IF ~tag.ok THEN ReadTags(rest, map, calls, signedChar)
             ELSE IF tag.type = "FMOD"
             THEN ReadTags(rest, map,
                      IF equalInsensitive(tag.name, "Sample Rate Change")
                      THEN Append(calls, Call("setFrequency", tag.data[1], "tag"))
                      ELSE calls,
                      signedChar)
             ELSE LET val == TagValue(tag, signedChar)
                  IN  ReadTags(rest,
                          IF val = <<>> THEN map ELSE MapPut(map, TagName(tag), val[1]),
                          calls, signedChar)

Tag(type, name, datatype, data) ==
    [ok |-> TRUE, type |-> type, name |-> name, datatype |-> datatype, data |-> data]

\* the tag sets the sound of a stream can carry
TagSets ==
    { <<>>,
      <<Tag("ID3V2", "tit2", "STRING", <<72, 105, 0>>)>>,
      <<Tag("FMOD", "Sample Rate Change", "FLOAT", <<22050>>),
        Tag("ASF", "WM/AlbumArtist", "STRING_UTF16", <<0, 65>>)>> }

---------------------------------------------------------------------------
(* The controller, LLStreamingAudio_FMODSTUDIO.  Its methods are operators  *)
(* on a record c of the controller's fields and the engine state they       *)
(* touch, so that a method can call another; c also carries the log of      *)
(* what the running operation has done so far.                              *)

NoStop == [taken |-> FALSE, url |-> "", pend |-> "", ndead |-> 0]

\* the state an operation starts from, with an empty log
Self ==
    [cur |-> mCurrentInternetStreamp, chan |-> mFMODInternetStreamChannelp,
     gain |-> mGain, meta |-> mMetaData, dead |-> mDeadStreams, url |-> mURL,
     pend |-> mPendingURL, dsp |-> mStreamDSP, active |-> dspActive,
     paused |-> chPaused, size |-> gWaveDataBufferSize, next |-> nextId,
     calls |-> <<>>, stopRet |-> "none", stopped |-> 0, afterStop |-> NoStop,
     drain |-> <<>>, polled |-> "none", nullDeref |-> FALSE, refreshed |-> FALSE,
     opened |-> "", crash |-> crashed, policy |-> FALSE, starving |-> FALSE,
     progress |-> 0]

Log(c, f, a, by) == [c EXCEPT !.calls = Append(@, Call(f, a, by))]

\* new LLAudioStreamManagerFMODSTUDIO(mSystem, mStreamGroup, url)
NewStream(c, url, createOk) ==
    [c EXCEPT !.cur = LLAudioStreamManagerFMODSTUDIO(c.next, url, createOk),
              !.next = (c.next % MaxHandles) + 1, !.opened = url]

\* leaves the pending URL in place
stop_NoPendingClear(c, relOk) ==
    LET c1 == [c EXCEPT !.meta = NullMeta]
        c2 == IF c1.dsp
              THEN [Log(c1, "setActive", 0, "stop") EXCEPT !.active = FALSE, !.size = 0]
              ELSE c1
        c3 == IF c2.chan # 0
              THEN [Log(Log(c2, "setPaused", 1, "stop"), "setPriority", 0, "stop")
                      EXCEPT !.paused = TRUE, !.chan = 0]
              ELSE c2
    IN  IF c3.cur # NullStream
        THEN LET r == stopStream(c3.cur, relOk)
             IN  IF r.ok
                 THEN [c3 EXCEPT !.cur = NullStream, !.stopRet = "closed",
                                 !.stopped = c3.cur.id]
                 ELSE [c3 EXCEPT !.dead = Append(@, r.h), !.cur = NullStream,
                                 !.stopRet = "deferred", !.stopped = c3.cur.id]
        ELSE c3

\* leaves the tap active
stop_KeepTap(c, relOk) ==
    LET c1 == [c EXCEPT !.pend = "", !.meta = NullMeta]
        c2 == IF c1.dsp THEN [c1 EXCEPT !.size = 0] ELSE c1
        c3 == IF c2.chan # 0
              THEN [Log(Log(c2, "setPaused", 1, "stop"), "setPriority", 0, "stop")
                      EXCEPT !.paused = TRUE, !.chan = 0]
              ELSE c2
    IN  IF c3.cur # NullStream
        THEN LET r == stopStream(c3.cur, relOk)
             IN  IF r.ok
                 THEN [c3 EXCEPT !.cur = NullStream, !.stopRet = "closed",
                                 !.stopped = c3.cur.id]
                 ELSE [c3 EXCEPT !.dead = Append(@, r.h), !.cur = NullStream,
                                 !.stopRet = "deferred", !.stopped = c3.cur.id]
        ELSE c3

\* leaves the fill count of the ring buffer as it is
stop_KeepFill(c, relOk) ==
    LET c1 == [c EXCEPT !.pend = "", !.meta = NullMeta]
        c2 == IF c1.dsp
              THEN [Log(c1, "setActive", 0, "stop") EXCEPT !.active = FALSE]
              ELSE c1
        c3 == IF c2.chan # 0
              THEN [Log(Log(c2, "setPaused", 1, "stop"), "setPriority", 0, "stop")
                      EXCEPT !.paused = TRUE, !.chan = 0]
              ELSE c2
    IN  IF c3.cur # NullStream
        THEN LET r == stopStream(c3.cur, relOk)
             IN  IF r.ok
                 THEN [c3 EXCEPT !.cur = NullStream, !.stopRet = "closed",
                                 !.stopped = c3.cur.id]
                 ELSE [c3 EXCEPT !.dead = Append(@, r.h), !.cur = NullStream,
                                 !.stopRet = "deferred", !.stopped = c3.cur.id]
        ELSE c3

\* stop(); relOk is the result of the release stopStream may call
stop(c, relOk) ==
    LET c1 == [c EXCEPT !.pend = "", !.meta = NullMeta]
        c2 == IF c1.dsp
              THEN [Log(c1, "setActive", 0, "stop") EXCEPT !.active = FALSE, !.size = 0]
              ELSE c1
        c3 == IF c2.chan # 0
              THEN [Log(Log(c2, "setPaused", 1, "stop"), "setPriority", 0, "stop")
                      EXCEPT !.paused = TRUE, !.chan = 0]
              ELSE c2
    IN  IF c3.cur # NullStream
        THEN LET r == stopStream(c3.cur, relOk)
             IN  IF r.ok
                 THEN [c3 EXCEPT !.cur = NullStream, !.stopRet = "closed",
                                 !.stopped = c3.cur.id]
                 ELSE [c3 EXCEPT !.dead = Append(@, r.h), !.cur = NullStream,
                                 !.stopRet = "deferred", !.stopped = c3.cur.id]
        ELSE c3

\* opens the handle at once, dead streams or not
start_IgnoreDead(c, url, relOk, createOk) ==
    LET s0 == stop(c, relOk)
        s == [s0 EXCEPT !.afterStop = [taken |-> TRUE, url |-> s0.url, pend |-> s0.pend,
                                       ndead |-> Len(s0.dead)]]
    IN  IF url # ""
        THEN [NewStream(s, url, createOk) EXCEPT !.url = url, !.meta = NewLLSD]
        ELSE [s EXCEPT !.url = ""]

\* opens the handle and forgets to record its URL
start_KeepURL(c, url, relOk, createOk) ==
    LET s0 == stop(c, relOk)
        s == [s0 EXCEPT !.afterStop = [taken |-> TRUE, url |-> s0.url, pend |-> s0.pend,
                                       ndead |-> Len(s0.dead)]]
    IN  IF url # ""
        THEN IF s.dead = <<>>
             THEN [NewStream(s, url, createOk) EXCEPT !.meta = NewLLSD]
             ELSE [s EXCEPT !.pend = url]
        ELSE [s EXCEPT !.url = ""]

\* start(url); createOk is the result of createStream, when a handle is made
start(c, url, relOk, createOk) ==
    LET s0 == stop(c, relOk)
        s == [s0 EXCEPT !.afterStop = [taken |-> TRUE, url |-> s0.url, pend |-> s0.pend,
                                       ndead |-> Len(s0.dead)]]
    IN  IF url # ""
        THEN IF s.dead = <<>>
             THEN [NewStream(s, url, createOk) EXCEPT !.url = url, !.meta = NewLLSD]
             ELSE [s EXCEPT !.pend = url]
        ELSE [s EXCEPT !.url = ""]

\* pause(pauseopt)
pause(c, pauseopt, relOk, createOk) ==
    LET opt == IF pauseopt < 0
               THEN (IF c.cur # NullStream THEN 1 ELSE 0)
               ELSE pauseopt
    IN  IF opt # 0
        THEN IF c.cur # NullStream THEN stop(c, relOk) ELSE c
        ELSE start(c, c.url, relOk, createOk)

\* counts only the remembered URL as paused
isPlaying_IgnorePending(c) ==
    IF c.cur # NullStream THEN 1
    ELSE IF c.url # "" THEN 2
    ELSE 0

\* isPlaying()
isPlaying(c) ==
    IF c.cur # NullStream THEN 1
    ELSE IF c.url # "" \/ c.pend # "" THEN 2
    ELSE 0

\* hands the linear gain to the channel
setGain_Linear(c, vol) ==
    LET c1 == [c EXCEPT !.gain = vol]
    IN  IF c1.chan # 0
        THEN Log(c1, "setVolume", llclamp(vol * GAIN_ONE, 0, GAIN_ONE * GAIN_ONE), "setGain")
        ELSE c1

\* setGain(vol); the gain is in tenths, the volume in hundredths
setGain(c, vol) ==
    LET c1 == [c EXCEPT !.gain = vol]
    IN  IF c1.chan # 0
        THEN Log(c1, "setVolume", llclamp(vol * vol, 0, GAIN_ONE * GAIN_ONE), "setGain")
        ELSE c1

\* releaseDeadStreams(); rels[i] is the result of the release the i-th entry's
\* stopStream may call.  The list is empty afterwards iff it returns true.
RECURSIVE DrainFrom(_, _, _)
DrainFrom(c, todo, rels) ==
    IF todo = <<>> THEN c
    ELSE LET r == stopStream(Head(todo), Head(rels))
             c1 == [c EXCEPT !.drain = Append(@, [id |-> Head(todo).id, ok |-> r.ok])]
         IN  DrainFrom(IF r.ok THEN c1 ELSE [c1 EXCEPT !.dead = Append(@, r.h)],
                       Tail(todo), Tail(rels))

\* erases every entry it visits, closed or not
releaseDeadStreams_EraseAll(c, rels) ==
    [DrainFrom([c EXCEPT !.dead = <<>>], c.dead, rels) EXCEPT !.dead = <<>>]

releaseDeadStreams(c, rels) == DrainFrom([c EXCEPT !.dead = <<>>], c.dead, rels)


\* opens the pending URL and keeps the old remembered URL
promote_KeepURL(c, createOk) ==
    IF c.pend # ""
    THEN IF c.cur # NullStream
         THEN [c EXCEPT !.crash = "assert265"]
         ELSE [NewStream(c, c.pend, createOk) EXCEPT !.meta = NewLLSD, !.pend = ""]
    ELSE c

\* opens the pending URL and leaves it in the pending slot
promote_KeepPending(c, createOk) ==
    IF c.pend # ""
    THEN IF c.cur # NullStream
         THEN [c EXCEPT !.crash = "assert265"]
         ELSE [NewStream(c, c.pend, createOk) EXCEPT !.url = c.pend, !.meta = NewLLSD]
    ELSE c

\* update(), lines 263-271: a pending URL is opened now
promote(c, createOk) ==
    IF c.pend # ""
    THEN IF c.cur # NullStream
         THEN [c EXCEPT !.crash = "assert265"]
         ELSE [NewStream(c, c.pend, createOk) EXCEPT !.url = c.pend, !.meta = NewLLSD,
                                                     !.pend = ""]
    ELSE c

\* the poll without the ERROR branch
pollOpenState_IgnoreError(c, st, playOk, relOk) ==
    LET c0 == [c EXCEPT !.polled = st, !.nullDeref = ~c.cur.stream]
    IN  IF st = "READY" /\ c0.chan = 0
        THEN LET r == startStream(c0.cur, playOk)
                 c1 == [c0 EXCEPT !.cur = r.h, !.chan = r.chan]
             IN  IF r.chan # 0
                 THEN [Log(setGain(c1, c1.gain), "setPaused", 0, "update")
                         EXCEPT !.paused = FALSE, !.active = c1.dsp]
                 ELSE c1
        ELSE c0

\* update(), lines 282-303: the poll of the open state.  st is what
\* getOpenState returned; playOk and relOk as in startStream and stopStream.
pollOpenState(c, st, playOk, relOk) ==
    LET c0 == [c EXCEPT !.polled = st, !.nullDeref = ~c.cur.stream]
    IN  IF st = "READY"
        THEN IF c0.chan = 0
             THEN LET r == startStream(c0.cur, playOk)
                      c1 == [c0 EXCEPT !.cur = r.h, !.chan = r.chan]
                      c2 == IF r.played THEN Log(c1, "playSound", 1, "update") ELSE c1
                  IN  IF r.chan # 0
                      THEN LET c3 == setGain([c2 EXCEPT !.paused = TRUE], c2.gain)
                               c4 == IF c3.dsp
                                     THEN [Log(c3, "setActive", 1, "update")
                                             EXCEPT !.active = TRUE]
                                     ELSE c3
                           IN  [Log(c4, "setPaused", 0, "update") EXCEPT !.paused = FALSE]
                      ELSE c2
             ELSE c0
        ELSE IF st = "ERROR" THEN stop(c0, relOk)
        ELSE c0

\* pauses on every starving tick, paused already or not
refreshAndStarve_PauseAgain(c, soundOk, dirty, tags, starving, progress, signedChar) ==
    LET c0 == IF c.meta.null THEN [c EXCEPT !.meta = NewLLSD] ELSE c
    IN  IF ~soundOk THEN c0
        ELSE LET t == ReadTags(tags, {}, c0.calls, signedChar)
                 c1 == [(IF dirty
                         THEN [c0 EXCEPT !.meta = [null |-> FALSE, map |-> t.map],
                                         !.calls = t.calls, !.refreshed = TRUE]
                         ELSE c0)
                          EXCEPT !.policy = TRUE, !.starving = starving,
                                 !.progress = progress]
             IN  IF starving
                 THEN [Log(c1, "setPaused", 1, "starve") EXCEPT !.paused = TRUE]
                 ELSE IF progress > RESUME_PERCENT
                      THEN [Log(c1, "setPaused", 0, "resume") EXCEPT !.paused = FALSE]
                      ELSE c1

\* update(), lines 305-419, entered with a channel: the tags and the starvation
\* policy.  soundOk: getCurrentSound gave a sound; dirty: dirtytagcount # 0.
\* The log keeps whether the policy was reached and what the backend reported.
refreshAndStarve(c, soundOk, dirty, tags, starving, progress, signedChar) ==
    LET c0 == IF c.meta.null THEN [c EXCEPT !.meta = NewLLSD] ELSE c
    IN  IF ~soundOk THEN c0
        ELSE LET t == ReadTags(tags, {}, c0.calls, signedChar)
                 c1 == [(IF dirty
                         THEN [c0 EXCEPT !.meta = [null |-> FALSE, map |-> t.map],
                                         !.calls = t.calls, !.refreshed = TRUE]
                         ELSE c0)
                          EXCEPT !.policy = TRUE, !.starving = starving,
                                 !.progress = progress]
             IN  IF starving
                 THEN IF ~c1.paused
                      THEN [Log(c1, "setPaused", 1, "starve") EXCEPT !.paused = TRUE]
                      ELSE c1
                 ELSE IF progress > RESUME_PERCENT
                      THEN [Log(c1, "setPaused", 0, "resume") EXCEPT !.paused = FALSE]
                      ELSE c1

---------------------------------------------------------------------------
(* The waveform callback.                                                   *)

\* the mono mix of one frame: total / inchannels
MixDown(frame) ==
    LET RECURSIVE Sum(_)
        Sum(f) == IF f = <<>> THEN 0 ELSE Head(f) + Sum(Tail(f))
    IN  Sum(frame) \div Len(frame)

\* the frames the mixer delivers: one or two channels
Frames == { <<2>>, <<1, 3>> }
Blocks ==
    UNION { [1..n -> {f \in Frames : Len(f) = ch}] : n \in 0..MaxBlock, ch \in 1..2 }

\* the loop with an eviction that resets the fill count and moves nothing
RECURSIVE WriteBlock_NoMove(_, _, _, _)
WriteBlock_NoMove(w, local_buf, i, minSize) ==
    IF i = 0 THEN w
    ELSE LET inc == w.size + 1
             size == IF inc > WAVE_BUFFER_SIZE THEN 1 + minSize ELSE inc
         IN  WriteBlock_NoMove([buf |-> [w.buf EXCEPT ![WAVE_BUFFER_SIZE - size] = local_buf[i]],
                                size |-> size],
                               local_buf, i - 1, minSize)

\* the loop with an eviction that starts the buffer again with one sample
RECURSIVE WriteBlock_DropKept(_, _, _, _)
WriteBlock_DropKept(w, local_buf, i, minSize) ==
    IF i = 0 THEN w
    ELSE LET inc == w.size + 1
             size == IF inc > WAVE_BUFFER_SIZE THEN 1 ELSE inc
         IN  WriteBlock_DropKept([buf |-> [w.buf EXCEPT ![WAVE_BUFFER_SIZE - size] = local_buf[i]],
                                  size |-> size],
                                 local_buf, i - 1, minSize)

\* lines 101-110 for i = i, i-1, .. 1 on w = [buf, size]
RECURSIVE WriteBlock(_, _, _, _)
WriteBlock(w, local_buf, i, minSize) ==
    IF i = 0 THEN w
    ELSE LET inc == w.size + 1
             full == inc > WAVE_BUFFER_SIZE
             moved == IF full /\ minSize # 0
                      THEN [k \in 0..(WAVE_BUFFER_SIZE - 1) |->
                              IF k >= WAVE_BUFFER_SIZE - minSize
                              THEN w.buf[k - (WAVE_BUFFER_SIZE - minSize)]
                              ELSE w.buf[k]]
                      ELSE w.buf
             size == IF full THEN 1 + minSize ELSE inc
         IN  WriteBlock([buf |-> [moved EXCEPT ![WAVE_BUFFER_SIZE - size] = local_buf[i]],
                         size |-> size],
                        local_buf, i - 1, minSize)

\* waveDataCallback(inbuffer, length, inchannels)
waveDataCallback(w, block, minSize) ==
    IF Len(block) = 0 \/ Len(block[1]) = 0 THEN w
    ELSE WriteBlock(w, [i \in 1..Len(block) |-> MixDown(block[i])], Len(block), minSize)

---------------------------------------------------------------------------
(* The state machine.                                                       *)

\* a thread outside the functions that touch the ring buffer
TickIdle == [pc |-> "idle", count |-> 0]
MixerIdle == [pc |-> "idle", local_buf |-> <<>>, i |-> 0, moved |-> FALSE]

NoPre == [url |-> "", pend |-> "", cur |-> 0, fill |-> 0, chan |-> 0, paused |-> TRUE,
          gain |-> 0]

NoHist ==
    [op |-> "init", arg |-> "", calls |-> <<>>, stopRet |-> "none", stopped |-> 0,
     afterStop |-> NoStop, drain |-> <<>>, polled |-> "none", nullDeref |-> FALSE,
     refreshed |-> FALSE, opened |-> "", pre |-> NoPre, policy |-> FALSE,
     starving |-> FALSE, progress |-> 0, ret |-> "none", out |-> <<>>]

\* the constructor of the controller (lines 119-158); createDSP may fail
Init ==
    /\ mCurrentInternetStreamp = NullStream
    /\ mFMODInternetStreamChannelp = 0
    /\ mGain = GAIN_ONE
    /\ mMetaData = NullMeta
    /\ mDeadStreams = <<>>
    /\ mURL = ""
    /\ mPendingURL = ""
    /\ mStreamDSP \in BOOLEAN
    /\ dspActive = FALSE
    /\ chPaused = TRUE
    /\ gWaveDataBuffer = [k \in 0..(WAVE_BUFFER_SIZE - 1) |-> 0]
    /\ gWaveDataBufferSize = 0
    /\ gWaveBufferMinSize = 0
    /\ nextId = 1
    /\ crashed = "no"
    /\ hist = NoHist
    /\ gWaveDataMutex = "none"
    /\ dspLock = "none"
    /\ tick = TickIdle
    /\ mixer = MixerIdle
    /\ produced = <<>>
    /\ written = <<>>

\* the state an operation of the controller leaves, and its log
CommitCtl(state, op, arg) ==
    \E c \in {state} :
        /\ mCurrentInternetStreamp' = c.cur
        /\ mFMODInternetStreamChannelp' = c.chan
        /\ mGain' = c.gain
        /\ mMetaData' = c.meta
        /\ mDeadStreams' = c.dead
        /\ mURL' = c.url
        /\ mPendingURL' = c.pend
        /\ dspActive' = c.active
        /\ chPaused' = c.paused
        /\ gWaveDataBufferSize' = c.size
        /\ nextId' = c.next
        /\ crashed' = c.crash
        /\ hist' = [op |-> op, arg |-> arg, calls |-> c.calls, stopRet |-> c.stopRet,
                    stopped |-> c.stopped, afterStop |-> c.afterStop, drain |-> c.drain,
                    polled |-> c.polled, nullDeref |-> c.nullDeref,
                    refreshed |-> c.refreshed, opened |-> c.opened,
                    pre |-> [url |-> mURL, pend |-> mPendingURL,
                                 cur |-> mCurrentInternetStreamp.id,
                                 fill |-> gWaveDataBufferSize,
                                 chan |-> mFMODInternetStreamChannelp,
                                 paused |-> chPaused, gain |-> mGain],
                    policy |-> c.policy, starving |-> c.starving,
                    progress |-> c.progress, ret |-> "none", out |-> <<>>]
        /\ UNCHANGED <<mStreamDSP, gWaveDataBuffer, gWaveBufferMinSize>>

\* an operation of the controller run as one step of the tick thread
Commit(state, op, arg) ==
    /\ CommitCtl(state, op, arg)
    /\ UNCHANGED threadVars

\* whether stop() on c would call Sound::release
Releases(c) == c.cur.stream /\ c.cur.state # "CONNECTING"
RelChoices(c) == IF Releases(c) THEN BOOLEAN ELSE {TRUE}

\* whether the poll of c would call System::playSound
PlayChoices(c, st) ==
    IF st = "READY" /\ c.chan = 0 /\ startStream(c.cur, TRUE).played
    THEN BOOLEAN ELSE {TRUE}

\* what the engine reports in one tick with a channel, without the
\* combinations the code does not read
TickInputs ==
    LET Buffering == [starving : {TRUE}, progress : {0, RESUME_PERCENT + 1}]
                     \cup [starving : {FALSE}, progress : Progress]
        In(soundOk, dirty, tags, signedChar, b) ==
            [soundOk |-> soundOk, dirty |-> dirty, tags |-> tags,
             signedChar |-> signedChar, starving |-> b.starving, progress |-> b.progress]
    IN  {In(FALSE, FALSE, <<>>, TRUE, [starving |-> FALSE, progress |-> 0])}
        \cup {In(TRUE, FALSE, <<>>, TRUE, b) : b \in Buffering}
        \cup {In(TRUE, TRUE, t[1], t[2], b) : t \in TagSets \X BOOLEAN, b \in Buffering}

Start(url) ==
    \E relOk \in RelChoices(Self) :
        \E createOk \in (IF url # "" THEN BOOLEAN ELSE {TRUE}) :
            Commit(start(Self, url, relOk, createOk), "start", url)

Stop ==
    \E relOk \in RelChoices(Self) :
        Commit(stop(Self, relOk), "stop", "")

Pause(pauseopt) ==
    \E relOk \in RelChoices(Self) :
        \E createOk \in (IF mURL # "" THEN BOOLEAN ELSE {TRUE}) :
            Commit(pause(Self, pauseopt, relOk, createOk), "pause",
                   CASE pauseopt < 0 -> "toggle" [] pauseopt = 0 -> "resume"
                     [] OTHER -> "pause")

UpdateWith(rels) ==
    \E c1 \in {releaseDeadStreams(Self, rels)} :
            IF c1.dead # <<>>
            THEN Commit(IF c1.cur # NullStream THEN [c1 EXCEPT !.crash = "assert259"]
                        ELSE c1, "update", "")
            ELSE \E createOk \in (IF c1.pend # "" THEN BOOLEAN ELSE {TRUE}) :
                \E c2 \in {promote(c1, createOk)} :
                    IF c2.crash # "no" \/ c2.cur = NullStream
                    THEN Commit(c2, "update", "")
                    ELSE \E st \in getOpenState(c2.cur) :
                        IF st = "CRASH"
                        THEN Commit([c2 EXCEPT !.crash = "nullderef", !.polled = "CRASH",
                                               !.nullDeref = TRUE], "update", "")
                        ELSE \E playOk \in PlayChoices(c2, st),
                                relOk \in (IF st = "ERROR" THEN RelChoices(c2) ELSE {TRUE}) :
                            \E c3 \in {pollOpenState(c2, st, playOk, relOk)} :
                                IF st = "ERROR" \/ c3.chan = 0
                                THEN Commit(c3, "update", "")
                                ELSE \E inp \in TickInputs :
                                    Commit(refreshAndStarve(c3, inp.soundOk, inp.dirty,
                                               inp.tags, inp.starving, inp.progress,
                                               inp.signedChar),
                                           "update", "")

Update == \E rels \in [1..Len(mDeadStreams) -> BOOLEAN] : UpdateWith(rels)

\* a tick in which every release of the drain succeeds
UpdateOk == UpdateWith([i \in 1..Len(mDeadStreams) |-> TRUE])

\* the backend moves the open state of a stream it still holds
NextStates(st) ==
    CASE st = "CONNECTING" -> {"BUFFERING", "READY", "ERROR"}
      [] st = "BUFFERING" -> {"READY", "ERROR"}
      [] st = "READY" -> {"BUFFERING", "ERROR"}
      [] OTHER -> {}

BackendCurrent ==
    /\ mCurrentInternetStreamp.stream
    /\ \E st \in NextStates(mCurrentInternetStreamp.state) :
        /\ mCurrentInternetStreamp' = [mCurrentInternetStreamp EXCEPT !.state = st]
        /\ hist' = [NoHist EXCEPT !.op = "backend"]
    /\ UNCHANGED <<mFMODInternetStreamChannelp, mGain, mMetaData, mDeadStreams, mURL,
                   mPendingURL, mStreamDSP, dspActive, chPaused, gWaveDataBuffer,
                   gWaveDataBufferSize, gWaveBufferMinSize, nextId, crashed>>
    /\ UNCHANGED threadVars

BackendDead(i) ==
    /\ mDeadStreams[i].stream
    /\ \E st \in NextStates(mDeadStreams[i].state) :
        /\ mDeadStreams' = [mDeadStreams EXCEPT ![i].state = st]
        /\ hist' = [NoHist EXCEPT !.op = "backend"]
    /\ UNCHANGED <<mCurrentInternetStreamp, mFMODInternetStreamChannelp, mGain,
                   mMetaData, mURL, mPendingURL, mStreamDSP, dspActive, chPaused,
                   gWaveDataBuffer, gWaveDataBufferSize, gWaveBufferMinSize, nextId,
                   crashed>>
    /\ UNCHANGED threadVars

\* the mixer thread runs the DSP's read callback while the DSP is active
WaveCallback ==
    /\ dspActive
    /\ \E block \in Blocks :
        LET w == waveDataCallback([buf |-> gWaveDataBuffer, size |-> gWaveDataBufferSize],
                                  block, gWaveBufferMinSize)
        IN  /\ gWaveDataBuffer' = w.buf
            /\ gWaveDataBufferSize' = w.size
    /\ hist' = [NoHist EXCEPT !.op = "callback"]
    /\ UNCHANGED <<mCurrentInternetStreamp, mFMODInternetStreamChannelp, mGain,
                   mMetaData, mDeadStreams, mURL, mPendingURL, mStreamDSP, dspActive,
                   chPaused, gWaveBufferMinSize, nextId, crashed>>
    /\ UNCHANGED threadVars

Running == crashed = "no"

Next ==
    \/ Running /\ \E url \in URLs \cup {""} : Start(url)
    \/ Running /\ Stop
    \/ Running /\ \E pauseopt \in {-1, 0, 1} : Pause(pauseopt)
    \/ Running /\ Update
    \/ Running /\ BackendCurrent
    \/ Running /\ \E i \in 1..Len(mDeadStreams) : BackendDead(i)
    \/ Running /\ WaveCallback

Spec == Init /\ [][Next]_vars

\* The host leaves a deferred request alone (no start, stop or pause while a
\* URL is pending), keeps ticking while dead streams wait, and the backend
\* lets every dead stream leave CONNECTING and every release succeed in the end.
NextPending ==
    \/ Running /\ mPendingURL = "" /\ \E url \in URLs \cup {""} : Start(url)
    \/ Running /\ mPendingURL = "" /\ Stop
    \/ Running /\ mPendingURL = "" /\ \E pauseopt \in {-1, 0, 1} : Pause(pauseopt)
    \/ Running /\ Update
    \/ Running /\ BackendCurrent
    \/ Running /\ \E i \in 1..Len(mDeadStreams) : BackendDead(i)
    \/ Running /\ WaveCallback

SpecPending ==
    /\ Init
    /\ [][NextPending]_vars
    /\ WF_vars(Running /\ mDeadStreams # <<>> /\ UpdateOk)
    /\ WF_vars(Running /\ \E i \in 1..Len(mDeadStreams) : BackendDead(i))

---------------------------------------------------------------------------
(* The stream handle on its own: one LLAudioStreamManagerFMODSTUDIO, its    *)
(* two methods called in any order while the backend moves its open state.  *)
(* The handle sits in mCurrentInternetStreamp; hist keeps the last call     *)
(* (op, ret, the handle before it, the engine calls it did) and, in calls,  *)
(* the engine calls the handle had made before that call.                   *)

\* one engine call of the handle: what was asked and what the engine answered
HCall(f, a, got) == [f |-> f, a |-> a, got |-> got]

HLog(op, ret, before, calls, did) ==
    [op |-> op, ret |-> ret, before |-> before, calls |-> calls, did |-> did]

\* the constructor, for every outcome of createStream
InitHandle ==
    /\ mCurrentInternetStreamp \in
          { LLAudioStreamManagerFMODSTUDIO(id, url, createOk) :
                id \in 1..MaxHandles, url \in URLs, createOk \in BOOLEAN }
    /\ mFMODInternetStreamChannelp = 0
    /\ mGain = GAIN_ONE
    /\ mMetaData = NullMeta
    /\ mDeadStreams = <<>>
    /\ mURL = ""
    /\ mPendingURL = ""
    /\ mStreamDSP = TRUE
    /\ dspActive = FALSE
    /\ chPaused = TRUE
    /\ gWaveDataBuffer = [k \in 0..(WAVE_BUFFER_SIZE - 1) |-> 0]
    /\ gWaveDataBufferSize = 0
    /\ gWaveBufferMinSize = 0
    /\ nextId = 1
    /\ crashed = "no"
    /\ hist = HLog("new", 0, mCurrentInternetStreamp, <<>>, <<>>)
    /\ gWaveDataMutex = "none"
    /\ dspLock = "none"
    /\ tick = TickIdle
    /\ mixer = MixerIdle
    /\ produced = <<>>
    /\ written = <<>>

\* everything but the handle and the log
allButHandle ==
    <<mFMODInternetStreamChannelp, mGain, mMetaData, mDeadStreams, mURL, mPendingURL,
      mStreamDSP, dspActive, chPaused, gWaveDataBuffer, gWaveDataBufferSize,
      gWaveBufferMinSize, nextId, crashed, gWaveDataMutex, dspLock, tick, mixer,
      produced, written>>

\* a call of startStream()
HStartStream ==
    /\ Len(hist.calls \o hist.did) < MaxCalls
    /\ \E playOk \in (IF startStream(mCurrentInternetStreamp, TRUE).played
                       THEN BOOLEAN ELSE {TRUE}) :
          \E r \in {startStream(mCurrentInternetStreamp, playOk)} :
              /\ mCurrentInternetStreamp' = r.h
              /\ hist' = HLog("startStream", r.chan, mCurrentInternetStreamp,
                              hist.calls \o hist.did,
                              IF r.played THEN <<HCall("playSound", 1, r.chan)>>
                              ELSE <<>>)
    /\ UNCHANGED allButHandle

\* a call of stopStream()
HStopStream ==
    /\ Len(hist.calls \o hist.did) < MaxCalls
    /\ \E relOk \in (IF stopStream(mCurrentInternetStreamp, TRUE).released
                      THEN BOOLEAN ELSE {TRUE}) :
          \E r \in {stopStream(mCurrentInternetStreamp, relOk)} :
              /\ mCurrentInternetStreamp' = r.h
              /\ hist' = HLog("stopStream", r.ok, mCurrentInternetStreamp,
                              hist.calls \o hist.did,
                              IF r.released THEN <<HCall("release", 0, r.ok)>>
                              ELSE <<>>)
    /\ UNCHANGED allButHandle

\* the backend moves the open state of the handle's stream
HBackend ==
    /\ mCurrentInternetStreamp.stream
    /\ \E st \in NextStates(mCurrentInternetStreamp.state) :
          mCurrentInternetStreamp' = [mCurrentInternetStreamp EXCEPT !.state = st]
    /\ hist' = HLog("backend", 0, mCurrentInternetStreamp, hist.calls \o hist.did, <<>>)
    /\ UNCHANGED allButHandle

NextHandle ==
    \/ HStartStream
    \/ HStopStream
    \/ HBackend

SpecHandle == InitHandle /\ [][NextHandle]_vars

---------------------------------------------------------------------------
(* The ring buffer between its two threads.  The mixer thread runs          *)
(* waveDataCallback step by step; the tick thread runs getWaveData() and    *)
(* stop() step by step and the other operations of the controller in one    *)
(* step each.  The engine runs the read callback of a DSP inside its DSP    *)
(* lock, the lock System::lockDSP() takes.  The backend is a well-behaved   *)
(* one here: every stream opens, gets READY and stays so, every release     *)
(* succeeds at once, and the host starts a stream only after it has stopped *)
(* the one before.                                                          *)

\* the number of values of a U32, scaled from 2^32 to 2^16
U32_VALUES == 65536

\* a signed count compared with an unsigned one is converted to U32
U32(n) == n % U32_VALUES

\* the counts getWaveData is called with
Counts == (-1)..((WAVE_BUFFER_SIZE \div 2) + 1)

ctlVars ==
    <<mCurrentInternetStreamp, mFMODInternetStreamChannelp, mGain, mMetaData,
      mDeadStreams, mURL, mPendingURL, mStreamDSP, chPaused, nextId>>

ringVars == <<gWaveDataBuffer, gWaveDataBufferSize, gWaveBufferMinSize>>

\* lines 78-96: the engine calls the read callback of the active DSP, inside
\* its DSP lock; an empty block returns at once, any other is mixed down
CallbackEnter ==
    /\ mixer.pc = "idle"
    /\ dspActive
    /\ dspLock = "none"
    /\ dspLock' = "mixer"
    /\ \E block \in Blocks :
          IF Len(block) = 0 \/ Len(block[1]) = 0
          THEN mixer' = [MixerIdle EXCEPT !.pc = "return"]
          ELSE mixer' = [pc |-> "mixed",
                         local_buf |-> [i \in 1..Len(block) |-> MixDown(block[i])],
                         i |-> Len(block), moved |-> FALSE]
    /\ hist' = [NoHist EXCEPT !.op = "callback"]
    /\ UNCHANGED <<ctlVars, ringVars, dspActive, crashed, gWaveDataMutex, tick, produced,
                   written>>

\* proceeds to the loop without taking the mutex
CallbackLock_Skip ==
    /\ mixer.pc = "mixed"
    /\ mixer' = [mixer EXCEPT !.pc = "loop"]
    /\ hist' = [NoHist EXCEPT !.op = "callback"]
    /\ UNCHANGED <<ctlVars, ringVars, dspActive, crashed, gWaveDataMutex, dspLock, tick,
                   produced, written>>

\* line 99: LLMutexLock lock(gWaveDataMutex)
CallbackLock ==
    /\ mixer.pc = "mixed"
    /\ gWaveDataMutex = "none"
    /\ gWaveDataMutex' = "mixer"
    /\ mixer' = [mixer EXCEPT !.pc = "loop"]
    /\ hist' = [NoHist EXCEPT !.op = "callback"]
    /\ UNCHANGED <<ctlVars, ringVars, dspActive, crashed, dspLock, tick, produced, written>>

\* lines 101-110: one turn of the loop, for i = mixer.i; mixer.moved keeps
\* whether the callback has run the memcpy of line 106
CallbackWrite ==
    /\ mixer.pc = "loop"
    /\ mixer.i > 0
    /\ \E w \in {WriteBlock([buf |-> gWaveDataBuffer, size |-> gWaveDataBufferSize],
                             <<mixer.local_buf[mixer.i]>>, 1, gWaveBufferMinSize)} :
          /\ gWaveDataBuffer' = w.buf
          /\ gWaveDataBufferSize' = w.size
    /\ mixer' = [mixer EXCEPT !.i = @ - 1,
                              !.moved = @ \/ (/\ gWaveDataBufferSize + 1 > WAVE_BUFFER_SIZE
                                              /\ gWaveBufferMinSize # 0)]
    /\ hist' = [NoHist EXCEPT !.op = "callback"]
    /\ UNCHANGED <<ctlVars, gWaveBufferMinSize, dspActive, crashed, gWaveDataMutex,
                   dspLock, tick, produced, written>>

\* line 111: the lock goes out of scope
CallbackUnlock ==
    /\ mixer.pc = "loop"
    /\ mixer.i = 0
    /\ gWaveDataMutex' = IF gWaveDataMutex = "mixer" THEN "none" ELSE gWaveDataMutex
    /\ mixer' = [MixerIdle EXCEPT !.pc = "return"]
    /\ hist' = [NoHist EXCEPT !.op = "callback"]
    /\ UNCHANGED <<ctlVars, ringVars, dspActive, crashed, dspLock, tick, produced, written>>

\* line 113: back in the engine, which leaves its DSP lock
CallbackReturn ==
    /\ mixer.pc = "return"
    /\ dspLock' = "none"
    /\ mixer' = MixerIdle
    /\ hist' = [NoHist EXCEPT !.op = "callback"]
    /\ UNCHANGED <<ctlVars, ringVars, dspActive, crashed, gWaveDataMutex, tick, produced,
                   written>>

\* what a call of getWaveData did: its result ("fatal" for LL_ERRS), the
\* caller's array afterwards (none of its slots set before), whether the
\* channel was muted and whether the call got as far as the lock
GLog(count, ret, out, muted, locked) ==
    [NoHist EXCEPT !.op = "getWaveData", !.arg = count, !.ret = ret, !.out = out,
                   !.polled = IF muted THEN "muted" ELSE "none",
                   !.refreshed = locked]

\* the checks with count compared as the signed number it is
GetWaveDataEnter_Signed(count) ==
    /\ tick.pc = "idle"
    /\ IF count > WAVE_BUFFER_SIZE \div 2
       THEN /\ crashed' = "llerrs"
            /\ hist' = GLog(count, "fatal", <<>>, FALSE, FALSE)
            /\ UNCHANGED tick
       ELSE IF mFMODInternetStreamChannelp = 0 \/ mCurrentInternetStreamp = NullStream
       THEN /\ hist' = GLog(count, "false", <<>>, FALSE, FALSE)
            /\ UNCHANGED <<crashed, tick>>
       ELSE \E muted \in BOOLEAN :
            IF muted
            THEN /\ hist' = GLog(count, "false", <<>>, TRUE, FALSE)
                 /\ UNCHANGED <<crashed, tick>>
            ELSE /\ tick' = [pc |-> "gwd_lock", count |-> count]
                 /\ hist' = [NoHist EXCEPT !.op = "getWaveData", !.arg = count]
                 /\ UNCHANGED crashed
    /\ UNCHANGED <<ctlVars, ringVars, dspActive, gWaveDataMutex, dspLock, mixer, produced,
                   written>>

\* lines 530-539: the checks before the lock; muted is what getMute reports
GetWaveDataEnter(count) ==
    /\ tick.pc = "idle"
    /\ IF U32(count) > WAVE_BUFFER_SIZE \div 2
       THEN /\ crashed' = "llerrs"
            /\ hist' = GLog(count, "fatal", <<>>, FALSE, FALSE)
            /\ UNCHANGED tick
       ELSE IF mFMODInternetStreamChannelp = 0 \/ mCurrentInternetStreamp = NullStream
       THEN /\ hist' = GLog(count, "false", <<>>, FALSE, FALSE)
            /\ UNCHANGED <<crashed, tick>>
       ELSE \E muted \in BOOLEAN :
            IF muted
            THEN /\ hist' = GLog(count, "false", <<>>, TRUE, FALSE)
                 /\ UNCHANGED <<crashed, tick>>
            ELSE /\ tick' = [pc |-> "gwd_lock", count |-> count]
                 /\ hist' = [NoHist EXCEPT !.op = "getWaveData", !.arg = count]
                 /\ UNCHANGED crashed
    /\ UNCHANGED <<ctlVars, ringVars, dspActive, gWaveDataMutex, dspLock, mixer, produced,
                   written>>

\* line 543: LLMutexLock lock(gWaveDataMutex)
GetWaveDataLock ==
    /\ tick.pc = "gwd_lock"
    /\ gWaveDataMutex = "none"
    /\ gWaveDataMutex' = "tick"
    /\ tick' = [tick EXCEPT !.pc = "gwd_locked"]
    /\ hist' = [NoHist EXCEPT !.op = "getWaveData", !.arg = tick.count]
    /\ UNCHANGED <<ctlVars, ringVars, dspActive, crashed, dspLock, mixer, produced, written>>

\* a copy that starts at the front of the buffer, not at the valid region
CopyOut_FromFront(buf, buff_size, count) ==
    [k \in 0..(count - 1) |-> IF k < buff_size THEN buf[k] ELSE 0]

\* what lines 548-551 leave in the caller's array of count slots: the copy
\* out of the ring buffer, then the padding
CopyOut(buf, buff_size, count) ==
    [k \in 0..(count - 1) |->
        IF k < buff_size
        THEN buf[WAVE_BUFFER_SIZE - buff_size + k]
        ELSE 0]

\* lines 544-553: the watermark, the read of the fill count, the copy, the
\* release of the lock and the padding
GetWaveDataCopy ==
    /\ tick.pc = "gwd_locked"
    /\ gWaveBufferMinSize' = U32(tick.count)
    /\ hist' = IF gWaveDataBufferSize = 0
               THEN GLog(tick.count, "false", <<>>, FALSE, TRUE)
               ELSE GLog(tick.count, "true",
                         CopyOut(gWaveDataBuffer, gWaveDataBufferSize, tick.count),
                         FALSE, TRUE)
    /\ gWaveDataMutex' = "none"
    /\ tick' = TickIdle
    /\ UNCHANGED <<ctlVars, gWaveDataBuffer, gWaveDataBufferSize, dspActive, crashed,
                   dspLock, mixer, produced, written>>

\* stop(), line 434: System::lockDSP(), which waits for the mixer to be
\* outside the DSP callbacks
StopLockDSP ==
    /\ tick.pc = "idle"
    /\ mStreamDSP
    /\ mCurrentInternetStreamp.state # "CONNECTING"
    /\ dspLock = "none"
    /\ dspLock' = "tick"
    /\ tick' = [TickIdle EXCEPT !.pc = "stop_dsp"]
    /\ hist' = [NoHist EXCEPT !.op = "stop"]
    /\ UNCHANGED <<ctlVars, ringVars, dspActive, crashed, gWaveDataMutex, mixer, produced,
                   written>>

\* stop(), lines 435-436: the tap is switched off and the fill count reset
StopReset ==
    /\ tick.pc = "stop_dsp"
    /\ dspActive' = FALSE
    /\ gWaveDataBufferSize' = 0
    /\ tick' = [TickIdle EXCEPT !.pc = "stop_unlock"]
    /\ hist' = [NoHist EXCEPT !.op = "stop"]
    /\ UNCHANGED <<ctlVars, gWaveDataBuffer, gWaveBufferMinSize, crashed, gWaveDataMutex,
                   dspLock, mixer, produced, written>>

\* stop(), line 437 to the end: System::unlockDSP() and the rest of stop(),
\* which touches neither the ring buffer nor the locks
StopFinish ==
    /\ tick.pc = "stop_unlock"
    /\ dspLock' = "none"
    /\ tick' = TickIdle
    /\ CommitCtl(stop(Self, TRUE), "stop", "")
    /\ UNCHANGED <<gWaveDataMutex, mixer, produced, written>>

\* start(url) with nothing to stop; the stop() in it takes the DSP lock
WaveStart ==
    /\ tick.pc = "idle"
    /\ dspLock = "none"
    /\ mCurrentInternetStreamp = NullStream
    /\ Start("a")
    /\ mCurrentInternetStreamp'.stream

\* the stream gets READY
WaveReady ==
    /\ BackendCurrent
    /\ mCurrentInternetStreamp'.state = "READY"

\* update() of a stream that neither starves nor brings new tags
WaveUpdate ==
    /\ tick.pc = "idle"
    /\ Update
    /\ ~hist'.refreshed
    /\ ~hist'.starving
    /\ hist'.progress = 0

InitWave == Init /\ mStreamDSP

NextWave ==
    \/ Running /\ WaveStart
    \/ Running /\ StopLockDSP
    \/ Running /\ StopReset
    \/ Running /\ StopFinish
    \/ Running /\ WaveUpdate
    \/ Running /\ WaveReady
    \/ Running /\ \E count \in Counts : GetWaveDataEnter(count)
    \/ Running /\ GetWaveDataLock
    \/ Running /\ GetWaveDataCopy
    \/ Running /\ CallbackEnter
    \/ Running /\ CallbackLock
    \/ Running /\ CallbackWrite
    \/ Running /\ CallbackUnlock
    \/ Running /\ CallbackReturn

SpecWave == InitWave /\ [][NextWave]_vars

---------------------------------------------------------------------------
(* The destructor.  The host starts, ticks and stops streams and then       *)
(* destroys the controller; the backend moves the open states of the        *)
(* streams at any time, also between the drain attempts of the destructor,  *)
(* and need never make a stream closable.  tick.count counts the drain      *)
(* attempts made.                                                           *)

\* the calls before the destructor
Alive == tick.pc = "idle"

DtorUnchanged == UNCHANGED <<gWaveDataMutex, dspLock, mixer, produced, written>>

\* line 163: stop()
DtorStop ==
    /\ Alive
    /\ tick' = [pc |-> "dtor_drain", count |-> 0]
    /\ \E relOk \in RelChoices(Self) : CommitCtl(stop(Self, relOk), "destructor", "stop")
    /\ DtorUnchanged

\* retries for as long as the list is not empty
DtorDrain_NoCap ==
    /\ tick.pc = "dtor_drain"
    /\ \E rels \in [1..Len(mDeadStreams) -> BOOLEAN] :
          \E c \in {releaseDeadStreams(Self, rels)} :
              /\ CommitCtl(c, "destructor", "drain")
              /\ tick' = IF c.dead = <<>>
                         THEN [pc |-> "dtor_release", count |-> 1]
                         ELSE [pc |-> "dtor_drain", count |-> 1]
    /\ DtorUnchanged

\* lines 164-169: one turn of the loop, the attempt and, after a failed one,
\* the sleep and the test of the loop
DtorDrain ==
    /\ tick.pc = "dtor_drain"
    /\ \E rels \in [1..Len(mDeadStreams) -> BOOLEAN] :
          \E c \in {releaseDeadStreams(Self, rels)} :
              /\ CommitCtl(c, "destructor", "drain")
              /\ tick' = IF c.dead = <<>> \/ tick.count + 1 = DRAIN_ATTEMPTS
                         THEN [pc |-> "dtor_release", count |-> tick.count + 1]
                         ELSE [pc |-> "dtor_drain", count |-> tick.count + 1]
    /\ DtorUnchanged

\* lines 171-178: the tap is taken out of the group, the group and the tap
\* are released; nothing is done about the streams left in the list
DtorRelease ==
    /\ tick.pc = "dtor_release"
    /\ tick' = [tick EXCEPT !.pc = "gone"]
    /\ \E c1 \in {IF mStreamDSP THEN Log(Self, "removeDSP", 0, "destructor") ELSE Self} :
          \E c2 \in {Log(c1, "ChannelGroup::release", 0, "destructor")} :
              CommitCtl(IF mStreamDSP THEN Log(c2, "DSP::release", 0, "destructor") ELSE c2,
                        "destructor", "release")
    /\ DtorUnchanged

NextDtor ==
    \/ Running /\ Alive /\ Start("a")
    \/ Running /\ Alive /\ Stop
    \/ Running /\ WaveUpdate
    \/ Running /\ tick.pc # "gone" /\ BackendCurrent
    \/ Running /\ tick.pc # "gone" /\ \E i \in 1..Len(mDeadStreams) : BackendDead(i)
    \/ Running /\ DtorStop
    \/ DtorDrain
    \/ DtorRelease

\* the thread that runs the destructor goes on running it
SpecDtor ==
    /\ Init
    /\ [][NextDtor]_vars
    /\ WF_vars(DtorDrain)
    /\ WF_vars(DtorRelease)

---------------------------------------------------------------------------
(* utf16input_to_utf8 on its own: texts of up to MaxUnits code units, given *)
(* with a little-endian marker, with a big-endian marker, or big-endian     *)
(* without a marker, to a build whose plain char is signed or unsigned.     *)

\* 'A', e-acute, the euro sign
Units == {65, 233, 8364}
Texts == UNION { [1..n -> Units] : n \in 0..MaxUnits }
Markers == {"FFFE", "FEFF", "none"}

RECURSIVE BytesLE(_)
BytesLE(S) ==
    IF S = <<>> THEN <<>> ELSE <<Head(S) % 256, Head(S) \div 256>> \o BytesLE(Tail(S))

RECURSIVE BytesBE(_)
BytesBE(S) ==
    IF S = <<>> THEN <<>> ELSE <<Head(S) \div 256, Head(S) % 256>> \o BytesBE(Tail(S))

\* the payload of a tag that carries the text S with the given marker
Payload(S, marker) ==
    IF marker = "FFFE" THEN <<255, 254>> \o BytesLE(S)
    ELSE IF marker = "FEFF" THEN <<254, 255>> \o BytesBE(S)
    ELSE BytesBE(S)

InitUtf16 ==
    /\ mCurrentInternetStreamp = NullStream
    /\ mFMODInternetStreamChannelp = 0
    /\ mGain = GAIN_ONE
    /\ mMetaData = NullMeta
    /\ mDeadStreams = <<>>
    /\ mURL = ""
    /\ mPendingURL = ""
    /\ mStreamDSP = TRUE
    /\ dspActive = FALSE
    /\ chPaused = TRUE
    /\ gWaveDataBuffer = [k \in 0..(WAVE_BUFFER_SIZE - 1) |-> 0]
    /\ gWaveDataBufferSize = 0
    /\ gWaveBufferMinSize = 0
    /\ nextId = 1
    /\ crashed = "no"
    /\ hist \in [op : {"input"}, text : Texts, marker : Markers, signedChar : BOOLEAN,
                  out : {<<>>}]
    /\ gWaveDataMutex = "none"
    /\ dspLock = "none"
    /\ tick = TickIdle
    /\ mixer = MixerIdle
    /\ produced = <<>>
    /\ written = <<>>

\* utf16input_to_utf8(payload, len, UTF16)
Decode ==
    /\ hist.op = "input"
    /\ hist' = [hist EXCEPT !.op = "utf16input_to_utf8",
                            !.out = utf16input_to_utf8(Payload(hist.text, hist.marker),
                                                       "UTF16", hist.signedChar)]
    /\ UNCHANGED <<ctlVars, ringVars, dspActive, crashed, threadVars>>

NextUtf16 == Decode

SpecUtf16 == InitUtf16 /\ [][NextUtf16]_vars

---------------------------------------------------------------------------
(* The gain.  The host sets gains of -0.5, 0, 0.5 and 1.5 at any time of a  *)
(* stream that it starts, ticks and stops.                                  *)

Gains == {0 - 5, 0, 5, GAIN_ONE + 5}

\* setGain(vol)
SetGain(vol) == Commit(setGain(Self, vol), "setGain", vol)

NextGain ==
    \/ Running /\ WaveStart
    \/ Running /\ Stop
    \/ Running /\ WaveUpdate
    \/ Running /\ WaveReady
    \/ Running /\ \E vol \in Gains : SetGain(vol)

SpecGain == Init /\ [][NextGain]_vars

---------------------------------------------------------------------------
(* The contents of the ring buffer.  Samples differ in value, the callback  *)
(* and getWaveData() are one step each (their accesses exclude each other), *)
(* and produced and written keep what the callback was given and what it    *)
(* stored since the fill count was last reset.  The backend is the          *)
(* well-behaved one of the runs above, and the host plays one stream, which *)
(* it starts, ticks until it plays, and stops.                              *)

\* the frames the mixer delivers: none, one or two channels
WaveFrames == { <<>>, <<1>>, <<0, 2>>, <<1, 3>> }
WaveBlocks ==
    UNION { [1..n -> {f \in WaveFrames : Len(f) = ch}] : n \in 0..MaxBlock, ch \in 0..2 }

\* the record of the samples keeps the last WAVE_BUFFER_SIZE + 1 of them
KeepLast(q) ==
    IF Len(q) > WAVE_BUFFER_SIZE + 1
    THEN SubSeq(q, Len(q) - WAVE_BUFFER_SIZE, Len(q))
    ELSE q

\* the record starts again with the first sample after a reset of the fill count
SinceReset(q) == IF gWaveDataBufferSize = 0 THEN <<>> ELSE q

Reverse(q) == [k \in 1..Len(q) |-> q[Len(q) + 1 - k]]

\* waveDataCallback on one block: the loop of lines 101-110 stores the
\* samples of the block from the last to the first
RingCallback ==
    /\ dspActive
    /\ \E block \in WaveBlocks :
          \E w \in {waveDataCallback([buf |-> gWaveDataBuffer, size |-> gWaveDataBufferSize],
                                     block, gWaveBufferMinSize)} :
              /\ gWaveDataBuffer' = w.buf
              /\ gWaveDataBufferSize' = w.size
              /\ IF Len(block) = 0 \/ Len(block[1]) = 0
                 THEN /\ UNCHANGED <<produced, written>>
                      /\ hist' = [NoHist EXCEPT !.op = "callback", !.arg = 0]
                 ELSE \E local_buf \in {[i \in 1..Len(block) |-> MixDown(block[i])]} :
                      /\ produced' = KeepLast(SinceReset(produced) \o local_buf)
                      /\ written' = KeepLast(SinceReset(written) \o Reverse(local_buf))
                      /\ hist' = [NoHist EXCEPT !.op = "callback", !.arg = Len(block),
                                      !.pre = [NoPre EXCEPT !.fill = gWaveDataBufferSize]]
    /\ UNCHANGED <<ctlVars, gWaveBufferMinSize, dspActive, crashed, gWaveDataMutex,
                   dspLock, tick, mixer>>

\* getWaveData(arr, count, stride), lines 530-553
RingGetWaveData(count) ==
    /\ IF U32(count) > WAVE_BUFFER_SIZE \div 2
       THEN /\ crashed' = "llerrs"
            /\ hist' = GLog(count, "fatal", <<>>, FALSE, FALSE)
            /\ UNCHANGED gWaveBufferMinSize
       ELSE IF mFMODInternetStreamChannelp = 0 \/ mCurrentInternetStreamp = NullStream
       THEN /\ hist' = GLog(count, "false", <<>>, FALSE, FALSE)
            /\ UNCHANGED <<crashed, gWaveBufferMinSize>>
       ELSE \E muted \in BOOLEAN :
            IF muted
            THEN /\ hist' = GLog(count, "false", <<>>, TRUE, FALSE)
                 /\ UNCHANGED <<crashed, gWaveBufferMinSize>>
            ELSE /\ gWaveBufferMinSize' = U32(count)
                 /\ hist' = IF gWaveDataBufferSize = 0
                            THEN GLog(count, "false", <<>>, FALSE, TRUE)
                            ELSE GLog(count, "true",
                                      CopyOut(gWaveDataBuffer, gWaveDataBufferSize, count),
                                      FALSE, TRUE)
                 /\ UNCHANGED crashed
    /\ UNCHANGED <<ctlVars, gWaveDataBuffer, gWaveDataBufferSize, dspActive,
                   gWaveDataMutex, dspLock, tick, mixer, produced, written>>

\* stop() of a stream whose close succeeds at once
RingStop ==
    /\ mCurrentInternetStreamp.state # "CONNECTING"
    /\ CommitCtl(stop(Self, TRUE), "stop", "")
    /\ produced' = <<>>
    /\ written' = <<>>
    /\ UNCHANGED <<gWaveDataMutex, dspLock, tick, mixer>>

\* the first start(url)
RingStart == mURL = "" /\ WaveStart

\* the ticks up to the one that starts playback
RingUpdate == mFMODInternetStreamChannelp = 0 /\ WaveUpdate

NextRing ==
    \/ Running /\ RingStart
    \/ Running /\ RingStop
    \/ Running /\ RingUpdate
    \/ Running /\ WaveReady
    \/ Running /\ \E count \in Counts : RingGetWaveData(count)
    \/ Running /\ RingCallback

SpecRing == InitWave /\ [][NextRing]_vars

---------------------------------------------------------------------------
(* Properties.                                                              *)

DeadIds(dead) == {dead[i].id : i \in 1..Len(dead)}
Last(q) == q[Len(q)]
Called(f, by) == \E i \in 1..Len(hist.calls) : hist.calls[i].f = f /\ hist.calls[i].by = by

\* C1: a current handle exists only while the dead-stream list is empty, and
\* the assertion of update()'s early return (line 259) never fails.
C1_NoHandleWhileDraining ==
    /\ mCurrentInternetStreamp # NullStream => mDeadStreams = <<>>
    /\ crashed # "assert259"

\* a tick returned early on an undrained list while a request was waiting
C1_Witness ==
    /\ hist.op = "update"
    /\ mDeadStreams # <<>>
    /\ mPendingURL # ""
    /\ \E i \in 1..Len(hist.drain) : ~hist.drain[i].ok

\* C2: start(url), url non-empty: with dead streams left after its stop() no
\* handle is created and url is pending; with none left a new handle for url
\* is current, url is remembered, nothing is pending and the metadata is a
\* fresh empty mapping.
C2_StartOpensOrDefers ==
    [][ (hist'.op = "start" /\ hist'.arg # "") =>
            IF hist'.afterStop.ndead # 0
            THEN /\ mCurrentInternetStreamp' = NullStream
                 /\ hist'.opened = ""
                 /\ nextId' = nextId
                 /\ mPendingURL' = hist'.arg
            ELSE /\ mCurrentInternetStreamp' # NullStream
                 /\ mCurrentInternetStreamp'.url = hist'.arg
                 /\ mCurrentInternetStreamp'.id = nextId
                 /\ mCurrentInternetStreamp'.id \notin DeadIds(mDeadStreams)
                 /\ mURL' = hist'.arg
                 /\ mPendingURL' = ""
                 /\ mMetaData' = NewLLSD ]_vars

\* a start was deferred behind a stream that could not be closed
C2_Witness ==
    /\ hist.op = "start"
    /\ hist.arg # ""
    /\ hist.afterStop.ndead # 0
    /\ mPendingURL = hist.arg
    /\ hist.pre.url # hist.arg

\* C3: the dead-stream list gains an entry only in a stop() whose stopStream
\* on the current handle returned false, and the entry is that handle, put
\* last; it loses an entry only in a drain pass in which stopStream on that
\* entry returned true; the entries that stay keep their order.
C3_DeadListChanges ==
    [][ LET old == mDeadStreams
            new == mDeadStreams'
            Kept(q, ids) == SelectSeq([i \in 1..Len(q) |-> q[i].id], LAMBDA x : x \in ids)
        IN  /\ \A i \in 1..Len(new) :
                  new[i].id \notin DeadIds(old) =>
                      /\ i = Len(new)
                      /\ hist'.stopRet = "deferred"
                      /\ hist'.stopped = new[i].id
                      /\ new[i] = mCurrentInternetStreamp
            /\ hist'.stopRet = "deferred" =>
                  /\ new # <<>>
                  /\ Last(new).id = hist'.stopped
                  /\ Last(new).id \notin DeadIds(old)
            /\ \A i \in 1..Len(old) :
                  old[i].id \notin DeadIds(new) =>
                      /\ hist'.op = "update"
                      /\ \E j \in 1..Len(hist'.drain) :
                            hist'.drain[j] = [id |-> old[i].id, ok |-> TRUE]
            /\ \A j \in 1..Len(hist'.drain) :
                  ~hist'.drain[j].ok => hist'.drain[j].id \in DeadIds(new)
            /\ Kept(new, DeadIds(old)) = Kept(old, DeadIds(new)) ]_vars

\* a stream whose close had been deferred was closed by a later tick
C3_Witness ==
    /\ hist.op = "update"
    /\ Len(hist.drain) = 1
    /\ hist.drain[1].ok
    /\ mDeadStreams = <<>>


\* C4: a deferred request is opened in the end.  While u is pending a tick
\* returns early, creating and polling nothing; the tick that ends the wait
\* has drained the list and opened a handle for u, which is the current
\* handle unless the poll of that same tick read ERROR and stopped it, u is
\* remembered and nothing is pending; and that tick comes.
C4_PendingIsOpened ==
    /\ [][ (hist'.op = "update" /\ mPendingURL # "") =>
              IF mPendingURL' # ""
              THEN /\ mPendingURL' = mPendingURL
                   /\ mDeadStreams' # <<>>
                   /\ mCurrentInternetStreamp' = NullStream
                   /\ hist'.opened = ""
                   /\ hist'.polled = "none"
                   /\ nextId' = nextId
                   /\ mURL' = mURL
              ELSE /\ \A j \in 1..Len(hist'.drain) : hist'.drain[j].ok
                   /\ hist'.opened = mPendingURL
                   /\ mURL' = mPendingURL
                   /\ mPendingURL' = ""
                   /\ IF hist'.polled = "ERROR"
                      THEN mCurrentInternetStreamp' = NullStream
                      ELSE /\ mCurrentInternetStreamp' # NullStream
                           /\ mCurrentInternetStreamp'.url = mPendingURL
                           /\ mCurrentInternetStreamp'.id = nextId ]_vars
    /\ \A u \in URLs :
          (mPendingURL = u) ~>
              (hist.op = "update" /\ hist.opened = u /\ mURL = u /\ mPendingURL = "")

\* a tick drained the list and opened the URL that had been waiting
C4_Witness ==
    /\ hist.op = "update"
    /\ hist.pre.pend # ""
    /\ hist.opened = hist.pre.pend
    /\ hist.drain # <<>>
    /\ mCurrentInternetStreamp.url = hist.pre.pend
    /\ mURL = hist.pre.pend
    /\ hist.pre.url # hist.pre.pend

\* C5: after stop() nothing is pending, the metadata is gone, the tap is
\* inactive, the fill count is 0, the controller has no channel and no
\* current handle; the former current handle is destroyed if stopStream
\* returned true and is otherwise the last dead stream; the remembered URL
\* is the one before.
C5_StopEffects ==
    [][ hist'.op = "stop" =>
            /\ mPendingURL' = ""
            /\ mMetaData' = NullMeta
            /\ ~dspActive'
            /\ gWaveDataBufferSize' = 0
            /\ mFMODInternetStreamChannelp' = 0
            /\ mCurrentInternetStreamp' = NullStream
            /\ mURL' = mURL
            /\ IF mCurrentInternetStreamp = NullStream
               THEN hist'.stopRet = "none" /\ mDeadStreams' = mDeadStreams
               ELSE /\ hist'.stopped = mCurrentInternetStreamp.id
                    /\ \/ hist'.stopRet = "closed" /\ mDeadStreams' = mDeadStreams
                       \/ /\ hist'.stopRet = "deferred"
                          /\ mDeadStreams' = Append(mDeadStreams, mCurrentInternetStreamp)
                    /\ ~mCurrentInternetStreamp.stream => hist'.stopRet = "closed"
                    /\ (mCurrentInternetStreamp.stream
                        /\ mCurrentInternetStreamp.state = "CONNECTING") =>
                           hist'.stopRet = "deferred" ]_vars

\* stop() on a playing stream with samples in the ring buffer, close deferred
C5_Witness ==
    /\ hist.op = "stop"
    /\ hist.stopRet = "deferred"
    /\ hist.pre.fill > 0
    /\ Called("setPriority", "stop")
    /\ mURL # ""

\* C6 as stated: for a non-empty url the remembered URL and the pending URL
\* are, right after the stop() inside start(url), what they were before.
C6_Original ==
    [][ (hist'.op = "start" /\ hist'.arg # "") =>
            /\ hist'.afterStop.url = mURL
            /\ hist'.afterStop.pend = mPendingURL ]_vars

\* C6 amended: the stop() inside start(url) leaves the remembered URL as it
\* was and always empties the pending slot; start clears the remembered URL
\* only for an empty url.
C6_StopInStart ==
    [][ hist'.op = "start" =>
            /\ hist'.afterStop.taken
            /\ hist'.afterStop.url = mURL
            /\ hist'.afterStop.pend = ""
            /\ hist'.arg = "" => mURL' = ""
            /\ hist'.arg # "" => mURL' \in {mURL, hist'.arg} ]_vars

\* start(url) on a controller that held another URL in the pending slot
C6_Witness ==
    /\ hist.op = "start"
    /\ hist.arg # ""
    /\ hist.pre.pend # ""
    /\ hist.pre.pend # hist.arg
    /\ hist.pre.url # ""
    /\ hist.afterStop.url = hist.pre.url
    /\ hist.afterStop.pend = ""

\* the controller and the engine are left as in c
Reached(c) ==
    /\ mCurrentInternetStreamp' = c.cur
    /\ mFMODInternetStreamChannelp' = c.chan
    /\ mGain' = c.gain
    /\ mMetaData' = c.meta
    /\ mDeadStreams' = c.dead
    /\ mURL' = c.url
    /\ mPendingURL' = c.pend
    /\ dspActive' = c.active
    /\ chPaused' = c.paused
    /\ gWaveDataBufferSize' = c.size
    /\ nextId' = c.next

AsStop == \E relOk \in BOOLEAN : Reached(stop(Self, relOk))
AsStart == \E relOk \in BOOLEAN, createOk \in BOOLEAN :
               Reached(start(Self, mURL, relOk, createOk))

\* C7 as stated: pause(true) leaves the state stop() leaves, pause(false) the
\* state start(getURL()) leaves, and the sentinel is true with a current
\* handle and false without.
C7_Original ==
    [][ hist'.op = "pause" =>
            CASE hist'.arg = "pause" -> AsStop
              [] hist'.arg = "resume" -> AsStart
              [] OTHER -> IF mCurrentInternetStreamp # NullStream
                          THEN AsStop ELSE AsStart ]_vars

\* C8: isPlaying() is 1 exactly with a current handle, 2 exactly without one
\* and with a remembered or pending URL, 0 otherwise; it is 0 after
\* start("") and 2 after the stop() that follows a start which opened a handle.
C8_IsPlaying ==
    [][ /\ (isPlaying(Self) = 1)' <=> (mCurrentInternetStreamp # NullStream)'
        /\ (isPlaying(Self) = 2)' <=>
              (mCurrentInternetStreamp = NullStream /\ (mURL # "" \/ mPendingURL # ""))'
        /\ (isPlaying(Self) = 0)' <=>
              (mCurrentInternetStreamp = NullStream /\ mURL = "" /\ mPendingURL = "")'
        /\ (hist'.op = "start" /\ hist'.arg = "") => (isPlaying(Self) = 0)'
        /\ (hist.op = "start" /\ hist.opened # "" /\ hist'.op = "stop") =>
              (isPlaying(Self) = 2)' ]_vars

\* only a deferred request makes the controller count as paused
C8_Witness ==
    /\ mCurrentInternetStreamp = NullStream
    /\ mURL = ""
    /\ mPendingURL # ""
    /\ isPlaying(Self) = 2

\* C9: a tick that polls ERROR stops the session: no current handle and no
\* channel afterwards, the handle destroyed or the only dead stream, no
\* metadata refresh and no starvation pause or unpause in that tick, and the
\* remembered URL is the one the session had.
C9_ErrorStopsSession ==
    [][ (hist'.op = "update" /\ hist'.polled = "ERROR") =>
            /\ mCurrentInternetStreamp' = NullStream
            /\ mFMODInternetStreamChannelp' = 0
            /\ mMetaData' = NullMeta
            /\ ~dspActive'
            /\ hist'.stopRet \in {"closed", "deferred"}
            /\ hist'.stopRet = "closed" => mDeadStreams' = <<>>
            /\ hist'.stopRet = "deferred" =>
                  /\ Len(mDeadStreams') = 1
                  /\ mDeadStreams'[1].id = hist'.stopped
                  /\ mDeadStreams'[1] = mCurrentInternetStreamp
            /\ ~hist'.refreshed
            /\ \A i \in 1..Len(hist'.calls) : hist'.calls[i].by = "stop"
            /\ mURL' = IF mPendingURL # "" THEN mPendingURL ELSE mURL ]_vars

\* a playing stream failed and its close was deferred
C9_Witness ==
    /\ hist.op = "update"
    /\ hist.polled = "ERROR"
    /\ ~hist.nullDeref
    /\ hist.stopRet = "deferred"
    /\ Called("setPaused", "stop")
    /\ hist.pre.fill > 0
    /\ mURL = hist.pre.url

\* C10 as stated: a handle whose open failed has no stream, and the controller
\* treats it as not ready without faulting: update() on it dereferences no
\* missing stream and creates no channel, and stop() on it closes it.
C10_Original ==
    [][ (mCurrentInternetStreamp # NullStream /\ ~mCurrentInternetStreamp.stream) =>
            /\ ~mCurrentInternetStreamp.mReady
            /\ mCurrentInternetStreamp.chan = 0
            /\ hist'.op = "update" =>
                  /\ ~hist'.nullDeref
                  /\ crashed' = "no"
                  /\ mFMODInternetStreamChannelp' = 0
            /\ hist'.op = "stop" => hist'.stopRet = "closed" ]_vars

\* the play requests among the engine calls of a handle
Plays(calls) == SelectSeq(calls, LAMBDA x : x.f = "playSound")

\* C11 as stated: startStream returns none whenever the open state is not
\* READY; the first call in READY state asks the engine to play the sound
\* paused and caches the channel; every later call returns the channel that
\* first call got and asks the engine nothing.
C11_Original ==
    hist.op = "startStream" =>
        /\ hist.before.state # "READY" => hist.ret = 0
        /\ (hist.before.state = "READY" /\ Plays(hist.calls) = <<>>) =>
               /\ hist.did = <<HCall("playSound", 1, hist.ret)>>
               /\ mCurrentInternetStreamp.chan = hist.ret
        /\ Plays(hist.calls) # <<>> =>
               /\ hist.ret = Plays(hist.calls)[1].got
               /\ hist.did = <<>>

\* C11 amended: startStream returns none, asking the engine nothing, whenever
\* the handle has no stream or its open state is not READY, cached channel or
\* not; in READY state without a cached channel it asks the engine once to
\* play the sound paused, caches what it gets and returns it, so that a
\* request that gave no channel is repeated by the next call; in READY state
\* with a cached channel it returns that channel, asks nothing and leaves the
\* handle as it was.  A handle gets at most one channel in its life.
C11_StartStreamIdempotent ==
    /\ hist.op = "startStream" =>
          LET b == hist.before
          IN  /\ (~b.stream \/ b.state # "READY") =>
                    /\ hist.ret = 0
                    /\ hist.did = <<>>
                    /\ mCurrentInternetStreamp = b
              /\ (b.stream /\ b.state = "READY" /\ b.chan = 0) =>
                    /\ hist.did = <<HCall("playSound", 1, hist.ret)>>
                    /\ mCurrentInternetStreamp = [b EXCEPT !.chan = hist.ret]
              /\ (b.stream /\ b.state = "READY" /\ b.chan # 0) =>
                    /\ hist.ret = b.chan
                    /\ hist.did = <<>>
                    /\ mCurrentInternetStreamp = b
    /\ Len(SelectSeq(Plays(hist.calls \o hist.did), LAMBDA x : x.got # 0)) <= 1
    /\ mCurrentInternetStreamp.chan # 0 =>
          \E i \in 1..Len(hist.calls \o hist.did) :
              (hist.calls \o hist.did)[i] = HCall("playSound", 1, mCurrentInternetStreamp.chan)

\* a second call in READY state returned the channel the first one had cached
C11_Witness ==
    /\ hist.op = "startStream"
    /\ hist.before.state = "READY"
    /\ hist.before.chan # 0
    /\ hist.ret = hist.before.chan
    /\ hist.did = <<>>
    /\ Len(Plays(hist.calls)) = 2
    /\ Plays(hist.calls)[1].got = 0

\* C12: stopStream on a handle with a stream: in CONNECTING state it returns
\* false and does not call release; in every other state it calls release
\* once and returns true exactly when release succeeded, the handle then
\* holding neither stream nor channel; when release fails the handle is as it
\* was, stream included.  On a handle without a stream it returns true and
\* calls nothing.
C12_StopStream ==
    hist.op = "stopStream" =>
        LET b == hist.before
        IN  /\ (b.stream /\ b.state = "CONNECTING") =>
                  /\ hist.ret = FALSE
                  /\ hist.did = <<>>
                  /\ mCurrentInternetStreamp = b
            /\ (b.stream /\ b.state # "CONNECTING") =>
                  /\ hist.did = <<HCall("release", 0, hist.ret)>>
                  /\ hist.ret => mCurrentInternetStreamp =
                                     [b EXCEPT !.stream = FALSE, !.chan = 0]
                  /\ ~hist.ret => mCurrentInternetStreamp = b /\ b.stream
            /\ ~b.stream =>
                  /\ hist.ret = TRUE
                  /\ hist.did = <<>>
                  /\ mCurrentInternetStreamp = b

\* a release that failed on a playing handle was retried and succeeded
C12_Witness ==
    /\ hist.op = "stopStream"
    /\ hist.ret = TRUE
    /\ hist.before.chan # 0
    /\ hist.did = <<HCall("release", 0, TRUE)>>
    /\ \E i \in 1..Len(hist.calls) : hist.calls[i] = HCall("release", 0, FALSE)
    /\ ~mCurrentInternetStreamp.stream


---------------------------------------------------------------------------
(* getWaveData() and the ring buffer, under SpecRing.                       *)

\* the call just made is getWaveData(arr, count, stride)
AfterGetWaveData == hist.op = "getWaveData"

NoActiveChannel == mFMODInternetStreamChannelp = 0 \/ mCurrentInternetStreamp = NullStream

\* the result of a call that the half-capacity check lets through
GetWaveDataResult(count) ==
    IF NoActiveChannel \/ hist.polled = "muted" \/ gWaveDataBufferSize = 0
    THEN hist.ret = "false"
    ELSE /\ hist.ret = "true"
         /\ DOMAIN hist.out = 0..(count - 1)
         /\ \A k \in 0..(count - 1) :
                /\ k < gWaveDataBufferSize =>
                      hist.out[k] = gWaveDataBuffer[WAVE_BUFFER_SIZE - gWaveDataBufferSize + k]
                /\ k >= gWaveDataBufferSize => hist.out[k] = 0

\* C13 as stated: a count over half the capacity is fatal; every other count
\* gives false without an active channel, on a muted channel or on an empty
\* buffer, and otherwise true with min(count, fill) slots from the ring
\* buffer and zeros from slot fill to slot count-1.
C13_Original ==
    AfterGetWaveData =>
        IF hist.arg > WAVE_BUFFER_SIZE \div 2
        THEN hist.ret = "fatal" /\ crashed = "llerrs"
        ELSE GetWaveDataResult(hist.arg)

\* C13: a count over half the capacity, and a negative count, which the
\* unsigned comparison of line 530 takes for a large one, are fatal; a count
\* of 0..capacity/2 gives false without an active channel, on a muted channel
\* or on an empty buffer, and otherwise true with the first min(count, fill)
\* slots from the valid region of the ring buffer and zeros from slot fill to
\* slot count-1.
C13_GetWaveDataOutcomes ==
    AfterGetWaveData =>
        IF hist.arg > WAVE_BUFFER_SIZE \div 2 \/ hist.arg < 0
        THEN hist.ret = "fatal" /\ crashed = "llerrs"
        ELSE GetWaveDataResult(hist.arg)

\* a call for more than the buffer holds, out of a buffer whose valid region
\* differs from its front: one slot copied, one padded
C13_Witness ==
    /\ AfterGetWaveData
    /\ hist.ret = "true"
    /\ hist.arg = 2
    /\ gWaveDataBufferSize = 1
    /\ gWaveDataBuffer[WAVE_BUFFER_SIZE - 1] # gWaveDataBuffer[0]
    /\ hist.out[0] = gWaveDataBuffer[WAVE_BUFFER_SIZE - 1]
    /\ hist.out[1] = 0

\* the last n entries of q, oldest first
LastOf(q, n) == SubSeq(q, Len(q) - n + 1, Len(q))

\* the values a getWaveData() that returned true left in the first n slots
Copied(n) == [k \in 1..n |-> hist.out[k - 1]]

\* C14 as stated: a getWaveData(count) that returns true with at least count
\* samples in the ring buffer copies the count samples the callback was
\* handed last, whatever the blocks they came in, the latest of them last,
\* and leaves count as the watermark.
C14_Original ==
    (/\ AfterGetWaveData
     /\ hist.ret = "true"
     /\ gWaveDataBufferSize >= hist.arg)
        => /\ Len(produced) >= hist.arg
           /\ Copied(hist.arg) = LastOf(produced, hist.arg)
           /\ gWaveBufferMinSize = hist.arg

\* the valid region of the ring buffer, from its lowest index up
Valid == [k \in 1..gWaveDataBufferSize |->
             gWaveDataBuffer[WAVE_BUFFER_SIZE - gWaveDataBufferSize + k - 1]]

\* the callback just ran on a block that did not fit into the buffer
AfterOverflow ==
    /\ hist.op = "callback"
    /\ hist.pre.fill + hist.arg > WAVE_BUFFER_SIZE

C19_EvictionKeepsWatermark ==
    [][(/\ gWaveDataBufferSize = WAVE_BUFFER_SIZE
        /\ hist'.op = "callback"
        /\ hist'.arg >= 1)
          => LET w == gWaveBufferMinSize
                 n == hist'.arg
             IN  /\ gWaveDataBufferSize' = w + n
                 /\ \A j \in 0..(w - 1) :
                        /\ gWaveDataBuffer'[WAVE_BUFFER_SIZE - w + j] = gWaveDataBuffer[j]
                        /\ gWaveDataBuffer[j] = written[Len(written) - j]
                 /\ \A i \in 1..n :
                        gWaveDataBuffer'[WAVE_BUFFER_SIZE - w - i] =
                            written'[Len(written') - n + i]]_vars

\* one sample stored onto a full buffer after a getWaveData(2): three
\* samples left, the two kept ones of different value
C19_Witness ==
    /\ hist.op = "callback"
    /\ hist.pre.fill = WAVE_BUFFER_SIZE
    /\ hist.arg = 1
    /\ gWaveBufferMinSize = 2
    /\ gWaveDataBufferSize = 3
    /\ gWaveDataBuffer[WAVE_BUFFER_SIZE - 1] # gWaveDataBuffer[WAVE_BUFFER_SIZE - 2]
    /\ gWaveDataBuffer[WAVE_BUFFER_SIZE - 3] = written[Len(written)]

---------------------------------------------------------------------------
(* The two threads at the ring buffer, under SpecWave.                      *)

\* the mixer is in the loop of lines 101-110
MixerInRing == mixer.pc = "loop"

\* getWaveData() is in lines 544-549
TickInGetWaveData == tick.pc = "gwd_locked"

\* stop() is at line 436
TickInStop == tick.pc = "stop_dsp"

\* C20 as stated: whoever reads or writes the buffer, the fill count or the
\* watermark holds gWaveDataMutex, and the two threads are never both at
\* such an access.
C20_Original ==
    /\ MixerInRing => gWaveDataMutex = "mixer"
    /\ (TickInGetWaveData \/ TickInStop) => gWaveDataMutex = "tick"
    /\ ~(MixerInRing /\ (TickInGetWaveData \/ TickInStop))

\* C20: waveDataCallback and getWaveData() are at the ring buffer only with
\* gWaveDataMutex held; stop() resets the fill count without the mutex, with
\* the engine's DSP lock held, which the mixer holds for the whole callback;
\* and the two threads are never both at such an access.
C20_RingAccessSerialised ==
    /\ MixerInRing => gWaveDataMutex = "mixer" /\ dspLock = "mixer"
    /\ TickInGetWaveData => gWaveDataMutex = "tick"
    /\ TickInStop => dspLock = "tick" /\ gWaveDataMutex # "tick"
    /\ ~(MixerInRing /\ (TickInGetWaveData \/ TickInStop))

\* getWaveData() waits for the mutex while the mixer is half through a block
C20_Witness ==
    /\ tick.pc = "gwd_lock"
    /\ MixerInRing
    /\ mixer.i > 0
    /\ mixer.i < Len(mixer.local_buf)
    /\ gWaveDataMutex = "mixer"

---------------------------------------------------------------------------
(* The gain, under SpecGain.                                                *)

\* the volume a channel gets for a gain of vol
Volume(vol) == llclamp(vol * vol, 0, GAIN_ONE * GAIN_ONE)

\* the tick just made started playback
StartedPlayback ==
    /\ hist.op = "update"
    /\ hist.pre.chan = 0
    /\ mFMODInternetStreamChannelp # 0

\* positions of the calls of f with argument a among the engine calls of the
\* last operation
CallsOf(f, a) == { i \in 1..Len(hist.calls) : hist.calls[i].f = f /\ hist.calls[i].a = a }

\* C16: setGain(v) leaves v as the gain with or without a channel and hands
\* a live channel, and only a live one, the volume v*v clamped to [0, 1];
\* the tick that starts playback leaves the gain as it was and hands the new
\* channel that gain, squared and clamped, before it unpauses the channel.
C16_SetGain ==
    /\ hist.op = "setGain" =>
          /\ mGain = hist.arg
          /\ hist.calls = IF hist.pre.chan # 0
                          THEN << Call("setVolume", Volume(hist.arg), "setGain") >>
                          ELSE << >>
    /\ StartedPlayback =>
          /\ mGain = hist.pre.gain
          /\ ~chPaused
          /\ \E i \in CallsOf("setVolume", Volume(mGain)) :
                 /\ \A k \in 1..Len(hist.calls) : hist.calls[k].f = "setVolume" => k = i
                 /\ \A j \in CallsOf("setPaused", 0) : i < j
          /\ CallsOf("setPaused", 0) # {}

\* playback starts with a gain of 1.5 set before: the new channel gets the
\* volume 1
C16_Witness ==
    /\ StartedPlayback
    /\ mGain = GAIN_ONE + 5
    /\ CallsOf("setVolume", GAIN_ONE * GAIN_ONE) # {}

---------------------------------------------------------------------------
(* The starvation policy, under Spec.                                       *)

\* the tick just made found a channel and left one
LiveTick ==
    /\ hist.op = "update"
    /\ hist.pre.chan # 0
    /\ mFMODInternetStreamChannelp # 0

\* the pause calls of a tick are made on a starving report for a channel
\* that is not paused, and a channel found paused stays so
PauseOnce ==
    /\ CallsOf("setPaused", 1) # {} => hist.starving /\ ~hist.pre.paused
    /\ Cardinality(CallsOf("setPaused", 1)) <= 1
    /\ (hist.starving /\ hist.pre.paused) => chPaused

\* C17 as stated: a tick calls for a pause only when the backend reports
\* starving and the channel is not paused, once; a paused channel is
\* unpaused by the first tick whose buffered percentage is over 80 and stays
\* paused on a tick whose percentage is 80 or less.
C17_Original ==
    LiveTick =>
        /\ PauseOnce
        /\ (hist.pre.paused /\ hist.policy /\ hist.progress > RESUME_PERCENT) => ~chPaused
        /\ (hist.pre.paused /\ hist.progress <= RESUME_PERCENT) => chPaused

\* C17: a tick calls for a pause only when the backend reports starving and
\* the channel is not paused, once; a tick that gets the channel's sound
\* leaves the channel paused when the backend reports starving, unpaused
\* when it does not and the buffered percentage is over 80, and as it was
\* otherwise; a tick that does not get the sound leaves the channel as it
\* was and calls for nothing.
C17_StarvationPolicy ==
    LiveTick =>
        /\ PauseOnce
        /\ hist.policy =>
              /\ (CallsOf("setPaused", 1) # {}) = (hist.starving /\ ~hist.pre.paused)
              /\ chPaused = IF hist.starving THEN TRUE
                            ELSE IF hist.progress > RESUME_PERCENT THEN FALSE
                            ELSE hist.pre.paused
        /\ ~hist.policy =>
              /\ hist.calls = << >>
              /\ chPaused = hist.pre.paused

\* a channel paused for starvation is unpaused by a tick that reports no
\* starving and more than 80 percent
C17_Witness ==
    /\ LiveTick
    /\ hist.policy
    /\ hist.pre.paused
    /\ ~hist.starving
    /\ hist.progress > RESUME_PERCENT
    /\ ~chPaused
    /\ CallsOf("setPaused", 0) # {}

---------------------------------------------------------------------------
(* The UTF-16 decoder, under SpecUtf16.                                     *)

\* C18 as stated: in auto-detect mode a text with a little-endian marker,
\* with a big-endian marker, or big-endian without a marker decodes to the
\* characters of the text, without the marker.
C18_Original ==
    hist.op = "utf16input_to_utf8" => hist.out = utf16str_to_utf8str(hist.text)

---------------------------------------------------------------------------
(* The destructor, under SpecDtor.                                          *)

InDestructor == tick.pc \in {"dtor_drain", "dtor_release"}

Destroyed == tick.pc = "gone"

\* what the destructor has done so far is what lines 163-169 allow
DtorBounded ==
    /\ (InDestructor \/ Destroyed) =>
          /\ tick.count <= DRAIN_ATTEMPTS
          /\ mCurrentInternetStreamp = NullStream
          /\ mFMODInternetStreamChannelp = 0
          /\ mPendingURL = ""
    /\ (tick.pc = "dtor_drain" /\ tick.count > 0) =>
          /\ mDeadStreams # <<>>
          /\ tick.count < DRAIN_ATTEMPTS
    /\ (tick.pc = "dtor_release" \/ Destroyed) =>
          /\ tick.count >= 1
          /\ mDeadStreams = <<>> \/ tick.count = DRAIN_ATTEMPTS
    /\ (Destroyed /\ hist.op = "destructor") =>
          /\ hist.arg = "release"
          /\ hist.calls =
                IF mStreamDSP
                THEN << Call("removeDSP", 0, "destructor"),
                        Call("ChannelGroup::release", 0, "destructor"),
                        Call("DSP::release", 0, "destructor") >>
                ELSE << Call("ChannelGroup::release", 0, "destructor") >>

\* C21: the destructor stops the stream, makes at most DRAIN_ATTEMPTS drain
\* attempts, none after one that left the list empty, then releases the
\* group and the tap, and it comes to its end whatever the backend does
\* about the streams in the list.
C21_DestructorTerminates ==
    /\ []DtorBounded
    /\ InDestructor ~> Destroyed

\* the destructor came to its end after DRAIN_ATTEMPTS attempts with a stream
\* that is still connecting left in the list
C21_Witness ==
    /\ Destroyed
    /\ tick.count = DRAIN_ATTEMPTS
    /\ Len(mDeadStreams) = 1
    /\ mDeadStreams[1].state = "CONNECTING"

---------------------------------------------------------------------------
(* The pending URL and the current handle, under Spec.                      *)

\* C22: between the operations a pending URL is kept only while there is no
\* current handle, and the assertion of line 265 has not failed.
C22_PendingImpliesNoCurrent ==
    /\ mPendingURL # "" => mCurrentInternetStreamp = NullStream
    /\ crashed # "assert265"

\* a tick has just opened the pending URL, with no handle to overwrite
C22_Witness ==
    /\ hist.op = "update"
    /\ hist.pre.pend # ""
    /\ hist.pre.cur = 0
    /\ hist.opened = hist.pre.pend
    /\ mCurrentInternetStreamp # NullStream
    /\ mPendingURL = ""

---------------------------------------------------------------------------
(* The playback channel and the tap, under Spec.                            *)

\* C23: the controller holds a channel only together with a current handle,
\* and the channel is the one that handle holds; with a channel held there is
\* no other handle; the tap is active only while a channel is held, so the
\* callback stores samples only then.
C23_ChannelAndTap ==
    /\ mFMODInternetStreamChannelp # 0 =>
          /\ mCurrentInternetStreamp # NullStream
          /\ mCurrentInternetStreamp.chan = mFMODInternetStreamChannelp
          /\ mDeadStreams = <<>>
    /\ dspActive => mFMODInternetStreamChannelp # 0
    /\ hist.op = "callback" => mFMODInternetStreamChannelp # 0

\* the callback has stored samples for the channel of the current handle
C23_Witness ==
    /\ hist.op = "callback"
    /\ gWaveDataBufferSize > 0
    /\ dspActive
    /\ mFMODInternetStreamChannelp # 0
    /\ mCurrentInternetStreamp.chan = mFMODInternetStreamChannelp

---------------------------------------------------------------------------
(* The remembered URL after start(url), under Spec.                         *)

\* C24 as stated: after start(url) with a non-empty url, getURL() gives url,
\* also when the open was deferred.
C24_Original ==
    (hist.op = "start" /\ hist.arg # "") => mURL = hist.arg

---------------------------------------------------------------------------
(* The bounds of the ring buffer, under SpecWave.                           *)

RingIndices == 0..(WAVE_BUFFER_SIZE - 1)

\* the fill count and the watermark are within their ranges
RingCounters ==
    /\ gWaveDataBufferSize \in 0..WAVE_BUFFER_SIZE
    /\ gWaveBufferMinSize \in 0..(WAVE_BUFFER_SIZE \div 2)

\* a turn of the callback's loop: the index it stores at is in the buffer,
\* and the memcpy of line 106, when it runs, copies within the buffer between
\* ranges that do not overlap
WriteInBounds ==
    (mixer.pc = "loop" /\ mixer'.i = mixer.i - 1) =>
        /\ (WAVE_BUFFER_SIZE - gWaveDataBufferSize') \in RingIndices
        /\ (gWaveDataBufferSize + 1 > WAVE_BUFFER_SIZE /\ gWaveBufferMinSize # 0) =>
              LET from == 0..(gWaveBufferMinSize - 1)
                  to == (WAVE_BUFFER_SIZE - gWaveBufferMinSize)..(WAVE_BUFFER_SIZE - 1)
              IN  /\ from \subseteq RingIndices
                  /\ to \subseteq RingIndices
                  /\ from \cap to = {}

\* the copy of getWaveData() reads within the buffer
ReadInBounds ==
    (tick.pc = "gwd_locked" /\ tick'.pc = "idle" /\ gWaveDataBufferSize # 0) =>
        LET n == IF U32(tick.count) < gWaveDataBufferSize
                 THEN U32(tick.count) ELSE gWaveDataBufferSize
            first == WAVE_BUFFER_SIZE - gWaveDataBufferSize
        IN  first..(first + n - 1) \subseteq RingIndices

\* C25: whatever the order of callbacks, stop() and getWaveData() calls
\* that get past the check of line 530, the fill count is in 0..capacity and
\* the watermark in 0..capacity/2, every index stored at or copied from is
\* in the buffer, and the two ranges of the eviction copy do not overlap.
C25_RingBounds ==
    /\ []RingCounters
    /\ [][WriteInBounds /\ ReadInBounds]_vars

\* a callback has run the eviction copy with the watermark at half the
\* capacity, where the two ranges touch
C25_Witness ==
    /\ mixer.pc = "loop"
    /\ mixer.moved
    /\ gWaveBufferMinSize = WAVE_BUFFER_SIZE \div 2
    /\ gWaveDataBufferSize = gWaveBufferMinSize + 1
====
